---- MODULE Spec2Model ----
(***************************************************************************)
(* The credential lifecycle of the authentication service: the refresh    *)
(* token ledger (sign-in, refresh, sign-out) and the three self-service    *)
(* flows (account verification, password recovery, password reset) with    *)
(* their attempt counters.  The handlers are modelled from                 *)
(* AuthenticationService; every handler runs inside transaction.handle.    *)
(***************************************************************************)
EXTENDS Integers, FiniteSets, Sequences, TLC

(* ---------------------------- bounds ----------------------------------- *)
NUsers == 2
MaxJti == 3
MaxTime == 1
REFRESH_TOKEN_EXPIRATION_IN_SEC == 1

UserIds == 1..NUsers
\* ids a forged token may name: the existing users and one id without a row
TokenUserIds == 1..(NUsers + 1)
Jtis == 1..MaxJti
Platforms == {"web", "mobile", "other"}
\* the three self-service flows, by the table that holds their requests
Flows == {"account_verification", "recover_password", "reset_password"}
\* request handlers the server runs side by side
NHandlers == 2
Handlers == 1..NHandlers

(* ---------------------------- state ------------------------------------ *)
VARIABLES
  now,               \* the clock read by moment() and by the token codec
  encryptionActive,  \* env ENABLE_SESSION_ACCESS_JWT_ENCRYPTION
  users,             \* user table: ids of the rows (a row's email is its key)
  identity,          \* user_identity table: users -> row
  refreshTokens,     \* refresh_token table: set of rows
  nextJti,           \* uuid(): next unused token identifier
  issued,            \* refresh tokens that reached a client, as sent
  mails,             \* what the last call handed to AuthenticationMailService
  consumed,          \* the jtis some successful refreshToken call presented
  last,              \* the outcome of the last finished call
  requests,          \* account_verification, recover_password, reset_password
  counters,          \* the three *_attempt_count tables
  nextId,            \* autoincrement id of each request table
  sends,             \* per flow and user: send calls that have succeeded
  inflight,          \* per request handler: the refreshToken call it is running
  mailed             \* the security tokens that went out in mails so far

flowVars == <<nextId, sends, inflight, mailed>>

vars == <<now, encryptionActive, users, identity, refreshTokens, nextJti,
          issued, mails, consumed, last, requests, counters, nextId, sends,
          inflight, mailed>>

(* ---------------------------- token codec ------------------------------ *)
\* A token on the wire: a readable JWT, its aes256gcm ciphertext, a string
\* that is neither, or no string at all.
NullJwt == [userId |-> 0, jti |-> 0, iat |-> 0, exp |-> 0, sig |-> FALSE]
Absent == [form |-> "absent", jwt |-> NullJwt]
Garbage == [form |-> "garbage", jwt |-> NullJwt]
Plain(jwt) == [form |-> "plain", jwt |-> jwt]

encrypt(w) == IF w.form = "plain" THEN [form |-> "cipher", jwt |-> w.jwt] ELSE Garbage

\* null when the text is not a ciphertext under the key
decrypt(w) == IF w.form = "cipher" THEN [form |-> "plain", jwt |-> w.jwt] ELSE Absent

genRefreshToken(userId, jti, t) ==
  Plain([userId |-> userId, jti |-> jti, iat |-> t,
         exp |-> t + REFRESH_TOKEN_EXPIRATION_IN_SEC, sig |-> TRUE])

\* jwt.decode: only a readable JWT has a payload
canDecode(w) == w.form = "plain"
getRefreshTokenPayload(w) == w.jwt

validateRefreshTokenSignatureOnly(w) == w.jwt.sig

\* "none", or the codec's error for the token against the stored claims
validateRefreshToken(w, row, t) ==
  IF ~w.jwt.sig THEN "InvalidTokenError"
  ELSE IF w.jwt.exp # row.exp \/ w.jwt.iat # row.iat \/ w.jwt.userId # row.userId
    THEN "InvalidTokenError"
  ELSE IF t >= w.jwt.exp THEN "TokenExpiredException"
  ELSE "none"

(* ---------------------------- store ------------------------------------ *)
\* The committed database as one value, so that a handler is a function
\* from the database it sees to the database it leaves.
DB ==
  [users |-> users, identity |-> identity, refreshTokens |-> refreshTokens,
   requests |-> requests, counters |-> counters]

getByJTI(db, jti) == {r \in db.refreshTokens : r.jti = jti}

deleteAllByUserId(db, userId) ==
  [db EXCEPT !.refreshTokens = {r \in @ : r.userId # userId}]

deleteByJTI(db, jti) ==
  [db EXCEPT !.refreshTokens = {r \in @ : r.jti # jti}]

deleteById(db, row) ==
  [db EXCEPT !.refreshTokens = @ \ {row}]

addRefreshTokenByUserId(db, payload) ==
  [db EXCEPT !.refreshTokens = @ \cup
     {[userId |-> payload.userId, jti |-> payload.jti,
       iat |-> payload.iat, exp |-> payload.exp]}]

updateIsLockedById(db, userId, value) ==
  [db EXCEPT !.identity[userId].isLocked = value]

Hash(password) == [bcrypt |-> password]
compare(password, hash) == hash = Hash(password)

\* UserService.validateUser: "none" or the error it throws
validateUser(db, userId, showNotVerifiedErr, showIsVerifiedErr) ==
  IF userId \notin db.users THEN "USER_NOT_FOUND"
  ELSE IF db.identity[userId].isLocked THEN "USER_LOCKED"
  ELSE IF showNotVerifiedErr /\ ~db.identity[userId].isAccountVerified
    THEN "USER_NOT_VERIFIED"
  ELSE IF showIsVerifiedErr /\ db.identity[userId].isAccountVerified
    THEN "USER_ALREADY_VERIFIED"
  ELSE "none"

(* ---------------------------- results ---------------------------------- *)
NoResp == [kind |-> "none", cookie |-> Absent, body |-> Absent, isAccountVerified |-> FALSE]

\* what a handler body leaves behind: the database as it stands when the
\* body returns or throws, the error thrown, the response, the mails handed
\* over on the way, and the refresh token that reached the client
Throw(db, err, sent) ==
  [db |-> db, err |-> err, resp |-> NoResp, mails |-> sent, token |-> Absent]

\* transaction.handle: prisma.$transaction commits when the callback
\* returns and rolls back when it throws; the error is rethrown
transaction_handle(pre, r) ==
  IF r.err = "none" THEN r ELSE [r EXCEPT !.db = pre]

(* ---------------------------- handlers --------------------------------- *)
reuseMail(userId, locked) == [kind |-> "reuse", to |-> userId, locked |-> locked]

\* the response with the pair also in the body of a web client
genTokensAndSendResponse_webBody(db, userId, isAccountVerified, platform, enc, t, jti) ==
  LET refreshToken == genRefreshToken(userId, jti, t)
      refreshTokenPayload == getRefreshTokenPayload(refreshToken)
      finalRefreshToken == IF enc THEN encrypt(refreshToken) ELSE refreshToken
      db2 == addRefreshTokenByUserId(db, refreshTokenPayload)
  IN  IF platform = "web"
        THEN [db |-> db2, err |-> "none", mails |-> {}, token |-> finalRefreshToken,
              resp |-> [kind |-> "web", cookie |-> finalRefreshToken, body |-> finalRefreshToken,
                        isAccountVerified |-> isAccountVerified]]
      ELSE IF platform = "mobile"
        THEN [db |-> db2, err |-> "none", mails |-> {}, token |-> finalRefreshToken,
              resp |-> [kind |-> "mobile", cookie |-> Absent, body |-> finalRefreshToken,
                        isAccountVerified |-> isAccountVerified]]
      ELSE [db |-> db2, err |-> "none", mails |-> {}, token |-> Absent,
            resp |-> [kind |-> "failure", cookie |-> Absent, body |-> Absent,
                      isAccountVerified |-> FALSE]]

\* the response that throws for a platform that is neither web nor mobile
genTokensAndSendResponse_throwsOther(db, userId, isAccountVerified, platform, enc, t, jti) ==
  LET refreshToken == genRefreshToken(userId, jti, t)
      refreshTokenPayload == getRefreshTokenPayload(refreshToken)
      finalRefreshToken == IF enc THEN encrypt(refreshToken) ELSE refreshToken
      db2 == addRefreshTokenByUserId(db, refreshTokenPayload)
  IN  IF platform = "web"
        THEN [db |-> db2, err |-> "none", mails |-> {}, token |-> finalRefreshToken,
              resp |-> [kind |-> "web", cookie |-> finalRefreshToken, body |-> Absent,
                        isAccountVerified |-> isAccountVerified]]
      ELSE IF platform = "mobile"
        THEN [db |-> db2, err |-> "none", mails |-> {}, token |-> finalRefreshToken,
              resp |-> [kind |-> "mobile", cookie |-> Absent, body |-> finalRefreshToken,
                        isAccountVerified |-> isAccountVerified]]
      ELSE Throw(db2, "InternalError", {})

\* genTokensAndSendResponse: mint the pair, store the refresh-token record,
\* build the platform's response
genTokensAndSendResponse(db, userId, isAccountVerified, platform, enc, t, jti) ==
  LET refreshToken == genRefreshToken(userId, jti, t)
      refreshTokenPayload == getRefreshTokenPayload(refreshToken)
      finalRefreshToken == IF enc THEN encrypt(refreshToken) ELSE refreshToken
      db2 == addRefreshTokenByUserId(db, refreshTokenPayload)
  IN  IF platform = "web"
        THEN [db |-> db2, err |-> "none", mails |-> {}, token |-> finalRefreshToken,
              resp |-> [kind |-> "web", cookie |-> finalRefreshToken, body |-> Absent,
                        isAccountVerified |-> isAccountVerified]]
      ELSE IF platform = "mobile"
        THEN [db |-> db2, err |-> "none", mails |-> {}, token |-> finalRefreshToken,
              resp |-> [kind |-> "mobile", cookie |-> Absent, body |-> finalRefreshToken,
                        isAccountVerified |-> isAccountVerified]]
      ELSE [db |-> db2, err |-> "none", mails |-> {}, token |-> Absent,
            resp |-> [kind |-> "failure", cookie |-> Absent, body |-> Absent,
                      isAccountVerified |-> FALSE]]

\* refreshToken, the branch taken when the jti has no record
refreshTokenReuse(db, userId) ==
  LET db2 == deleteAllByUserId(db, userId)
      userIdentity == db2.identity[userId]
  IN  IF userIdentity.strictMode
        THEN Throw(updateIsLockedById(db2, userId, TRUE), "REFRESH_TOKEN_REUSE",
                   {reuseMail(userId, TRUE)})
        ELSE Throw(db2, "REFRESH_TOKEN_REUSE", {reuseMail(userId, FALSE)})

\* the rotation that writes the record it read back before it issues the pair
refreshTokenRotate_writesBack(db, token, userId, row, platform, enc, t, jti) ==
  LET v == validateRefreshToken(token, row, t)
  IN  IF v = "TokenExpiredException"
        THEN Throw(deleteById(db, row), "RefreshTokenExpiredException", {})
      ELSE IF v # "none" THEN Throw(db, v, {})
      ELSE genTokensAndSendResponse([db EXCEPT !.refreshTokens = @ \cup {row}], userId, db.identity[userId].isAccountVerified,
                                    platform, enc, t, jti)

\* refreshToken, from the full validation on: the record exists
refreshTokenRotate(db, token, userId, row, platform, enc, t, jti) ==
  LET v == validateRefreshToken(token, row, t)
  IN  IF v = "TokenExpiredException"
        THEN Throw(deleteById(db, row), "RefreshTokenExpiredException", {})
      ELSE IF v # "none" THEN Throw(db, v, {})
      ELSE genTokensAndSendResponse(db, userId, db.identity[userId].isAccountVerified,
                                    platform, enc, t, jti)

\* the reuse branch moved in front of the signature check
refreshTokenAfterLookup_reuseFirst(db, final, refreshTokenFromDB, platform, enc, t, jti) ==
  LET payload == getRefreshTokenPayload(final)
      v == validateUser(db, payload.userId, TRUE, FALSE)
  IN  IF v # "none" THEN Throw(db, v, {})
      ELSE IF refreshTokenFromDB = {}
        THEN refreshTokenReuse(db, payload.userId)
      ELSE IF ~validateRefreshTokenSignatureOnly(final)
        THEN Throw(db, "InvalidTokenError", {})
      ELSE refreshTokenRotate(db, final, payload.userId,
                              CHOOSE r \in refreshTokenFromDB : TRUE,
                              platform, enc, t, jti)

\* refreshToken, what follows the lookup of the record: the user check, the
\* signature check, and then the branch on the record found
refreshTokenAfterLookup(db, final, refreshTokenFromDB, platform, enc, t, jti) ==
  LET payload == getRefreshTokenPayload(final)
      v == validateUser(db, payload.userId, TRUE, FALSE)
  IN  IF v # "none" THEN Throw(db, v, {})
      ELSE IF ~validateRefreshTokenSignatureOnly(final)
        THEN Throw(db, "InvalidTokenError", {})
      ELSE IF refreshTokenFromDB = {}
        THEN refreshTokenReuse(db, payload.userId)
      ELSE refreshTokenRotate(db, final, payload.userId,
                              CHOOSE r \in refreshTokenFromDB : TRUE,
                              platform, enc, t, jti)

\* the callback that reads the presented string without decrypting it
refreshTokenBody_noDecrypt(db, oldRefreshTokenString, platform, enc, t, jti) ==
  LET final == oldRefreshTokenString
  IN  IF final.form = "absent" THEN Throw(db, "INVALID_TOKEN", {})
      ELSE IF ~canDecode(final) THEN Throw(db, "InvalidTokenError", {})
      ELSE refreshTokenAfterLookup(db, final,
                                   getByJTI(db, getRefreshTokenPayload(final).jti),
                                   platform, enc, t, jti)

\* refreshToken, the callback handed to transaction.handle
refreshTokenBody(db, oldRefreshTokenString, platform, enc, t, jti) ==
  LET final == IF enc THEN decrypt(oldRefreshTokenString) ELSE oldRefreshTokenString
  IN  IF final.form = "absent" THEN Throw(db, "INVALID_TOKEN", {})
      ELSE IF ~canDecode(final) THEN Throw(db, "InvalidTokenError", {})
      ELSE refreshTokenAfterLookup(db, final,
                                   getByJTI(db, getRefreshTokenPayload(final).jti),
                                   platform, enc, t, jti)

refreshToken(db, oldRefreshTokenString, platform, enc, t, jti) ==
  transaction_handle(db, refreshTokenBody(db, oldRefreshTokenString, platform, enc, t, jti))

\* signInWithToken; the email of a user is the key of its row
signInWithTokenBody(db, email, password, platform, enc, t, jti) ==
  IF email \notin db.users THEN Throw(db, "EMAIL_OR_PASSWORD_INVALID", {})
  ELSE
    LET v == validateUser(db, email, TRUE, FALSE)
    IN  IF v # "none" THEN Throw(db, v, {})
        ELSE IF ~compare(password, db.identity[email].password)
          THEN Throw(db, "EMAIL_OR_PASSWORD_INVALID", {})
        ELSE genTokensAndSendResponse(db, email, db.identity[email].isAccountVerified,
                                      platform, enc, t, jti)

signInWithToken(db, email, password, platform, enc, t, jti) ==
  transaction_handle(db, signInWithTokenBody(db, email, password, platform, enc, t, jti))

\* the sign-out that deletes every record of the token's user
signOutBody_deletesAll(db, refreshTokenWire, platform, enc) ==
  LET refreshTokenString == IF enc THEN decrypt(refreshTokenWire) ELSE refreshTokenWire
  IN  IF refreshTokenString.form = "absent" THEN Throw(db, "INVALID_TOKEN", {})
      ELSE IF ~canDecode(refreshTokenString) THEN Throw(db, "InvalidTokenError", {})
      ELSE
        LET payload == getRefreshTokenPayload(refreshTokenString)
        IN  [db |-> deleteAllByUserId(db, payload.userId), err |-> "none", mails |-> {},
             token |-> Absent,
             resp |-> [kind |-> IF platform \in {"web", "mobile"} THEN "ok" ELSE "failure",
                       cookie |-> Absent, body |-> Absent, isAccountVerified |-> FALSE]]

\* signOut: a failed decryption counts as no token
signOutBody(db, refreshTokenWire, platform, enc) ==
  LET refreshTokenString == IF enc THEN decrypt(refreshTokenWire) ELSE refreshTokenWire
  IN  IF refreshTokenString.form = "absent" THEN Throw(db, "INVALID_TOKEN", {})
      ELSE IF ~canDecode(refreshTokenString) THEN Throw(db, "InvalidTokenError", {})
      ELSE
        LET payload == getRefreshTokenPayload(refreshTokenString)
        IN  [db |-> deleteByJTI(db, payload.jti), err |-> "none", mails |-> {},
             token |-> Absent,
             resp |-> [kind |-> IF platform \in {"web", "mobile"} THEN "ok" ELSE "failure",
                       cookie |-> Absent, body |-> Absent, isAccountVerified |-> FALSE]]

signOut(db, refreshTokenWire, platform, enc) ==
  transaction_handle(db, signOutBody(db, refreshTokenWire, platform, enc))

(* ---------------------------- self-service flows ---------------------- *)
\* the most sends a request takes before the limiter refuses (constants)
MAX_ATTEMPT_COUNT == 3
\* the cooldown of the limiter, in clock steps (constants.ONE_DAY_IN_SEC)
ONE_DAY_IN_SEC == 1
\* lifetime of a security token, in clock steps (env *_REQUEST_TIMEOUT_IN_SEC)
REQUEST_TIMEOUT_IN_SEC == 2

\* deletedAt of a row that is not soft-deleted
Null == -1

\* JwtService.gen*Token: a signed token of the flow's kind
genSecurityToken(kind, userId, jti, t) ==
  [kind |-> kind, userId |-> userId, jti |-> jti, iat |-> t,
   exp |-> t + REQUEST_TIMEOUT_IN_SEC, sig |-> TRUE]

genAccountVerifyToken(userId, jti, t) == genSecurityToken("account_verification", userId, jti, t)
genRecoverPasswordToken(userId, jti, t) == genSecurityToken("recover_password", userId, jti, t)
genResetPasswordToken(userId, jti, t) == genSecurityToken("reset_password", userId, jti, t)

\* <Flow>Service.getByUserId: the user's request that is not soft-deleted
getByUserId(db, f, userId) ==
  {r \in db.requests[f] : r.userId = userId /\ r.deletedAt = Null}

\* <Flow>Service.create: a new row under the next id
create(db, f, id, data) ==
  LET row == [x \in {"id", "deletedAt"} \cup DOMAIN data |->
                IF x = "id" THEN id ELSE IF x = "deletedAt" THEN Null ELSE data[x]]
  IN  [db EXCEPT !.requests[f] = @ \cup {row}]

\* <Flow>Service.updateById: overwrite the given columns of the live row
updateById(db, f, id, data) ==
  [db EXCEPT !.requests[f] =
     {IF r.id = id /\ r.deletedAt = Null
        THEN [x \in DOMAIN r |-> IF x \in DOMAIN data THEN data[x] ELSE r[x]]
        ELSE r : r \in @}]

\* <Flow>AttemptCountService.getBy<Flow>Id with includeDeleted false
getByRequestId(db, f, requestId) ==
  {c \in db.counters[f] : c.requestId = requestId /\ c.deletedAt = Null}

\* <Flow>AttemptCountService.create: the columns' defaults are count 1 and
\* the current time
createAttemptCount(db, f, requestId, t) ==
  [db EXCEPT !.counters[f] = @ \cup
     {[requestId |-> requestId, count |-> 1, countIncreaseLastUpdateDate |-> t,
       deletedAt |-> Null]}]

\* <Flow>AttemptCountService.updateById
updateAttemptCount(db, f, counter, count, t) ==
  [db EXCEPT !.counters[f] = (@ \ {counter}) \cup
     {[counter EXCEPT !.count = count, !.countIncreaseLastUpdateDate = t]}]

\* a handler body that returns after handing one mail over
Sent(db, mail) ==
  [db |-> db, err |-> "none", resp |-> NoResp, mails |-> {mail}, token |-> Absent]

(* ---------------------------- send handlers --------------------------- *)
\* the limiter of each send handler: what it leaves in the flow's counter
\* table, and the error it throws if it refuses

\* the limiter with the increment lost
recoverPasswordAttemptCount_noIncrement(db, requestId, t) ==
  LET found == getByRequestId(db, "recover_password", requestId)
  IN  IF found = {} THEN Throw(createAttemptCount(db, "recover_password", requestId, t), "none", {})
      ELSE LET attemptCount == CHOOSE c \in found : TRUE
               count == attemptCount.count
               countIncreaseLastUpdateDate == attemptCount.countIncreaseLastUpdateDate
           IN  IF count < MAX_ATTEMPT_COUNT
                 THEN Throw(updateAttemptCount(db, "recover_password", attemptCount, count, t),
                            "none", {})
               ELSE IF t - countIncreaseLastUpdateDate <= ONE_DAY_IN_SEC
                 THEN Throw(db, "WAIT_FOR_ANOTHER_DAY", {})
               ELSE Throw(updateAttemptCount(db, "recover_password", attemptCount, 0, t), "none", {})

\* the limiter with one increment too many
recoverPasswordAttemptCount_incrementAtCap(db, requestId, t) ==
  LET found == getByRequestId(db, "recover_password", requestId)
  IN  IF found = {} THEN Throw(createAttemptCount(db, "recover_password", requestId, t), "none", {})
      ELSE LET attemptCount == CHOOSE c \in found : TRUE
               count == attemptCount.count
               countIncreaseLastUpdateDate == attemptCount.countIncreaseLastUpdateDate
           IN  IF count <= MAX_ATTEMPT_COUNT
                 THEN Throw(updateAttemptCount(db, "recover_password", attemptCount, count + 1, t),
                            "none", {})
               ELSE IF t - countIncreaseLastUpdateDate <= ONE_DAY_IN_SEC
                 THEN Throw(db, "WAIT_FOR_ANOTHER_DAY", {})
               ELSE Throw(updateAttemptCount(db, "recover_password", attemptCount, 0, t), "none", {})

\* the limiter whose refusal stamps the counter with the time of the call
recoverPasswordAttemptCount_restamp(db, requestId, t) ==
  LET found == getByRequestId(db, "recover_password", requestId)
  IN  IF found = {} THEN Throw(createAttemptCount(db, "recover_password", requestId, t), "none", {})
      ELSE LET attemptCount == CHOOSE c \in found : TRUE
               count == attemptCount.count
               countIncreaseLastUpdateDate == attemptCount.countIncreaseLastUpdateDate
           IN  IF count < MAX_ATTEMPT_COUNT
                 THEN Throw(updateAttemptCount(db, "recover_password", attemptCount, count + 1, t),
                            "none", {})
               ELSE IF t - countIncreaseLastUpdateDate <= ONE_DAY_IN_SEC
                 THEN Throw(updateAttemptCount(db, "recover_password", attemptCount, count, t),
                            "WAIT_FOR_ANOTHER_DAY", {})
               ELSE Throw(updateAttemptCount(db, "recover_password", attemptCount, 0, t), "none", {})

\* the limiter whose reset counts the send that caused it
recoverPasswordAttemptCount_resetsToOne(db, requestId, t) ==
  LET found == getByRequestId(db, "recover_password", requestId)
  IN  IF found = {} THEN Throw(createAttemptCount(db, "recover_password", requestId, t), "none", {})
      ELSE LET attemptCount == CHOOSE c \in found : TRUE
               count == attemptCount.count
               countIncreaseLastUpdateDate == attemptCount.countIncreaseLastUpdateDate
           IN  IF count < MAX_ATTEMPT_COUNT
                 THEN Throw(updateAttemptCount(db, "recover_password", attemptCount, count + 1, t),
                            "none", {})
               ELSE IF t - countIncreaseLastUpdateDate <= ONE_DAY_IN_SEC
                 THEN Throw(db, "WAIT_FOR_ANOTHER_DAY", {})
               ELSE Throw(updateAttemptCount(db, "recover_password", attemptCount, 1, t), "none", {})

recoverPasswordAttemptCount(db, requestId, t) ==
  LET found == getByRequestId(db, "recover_password", requestId)
  IN  IF found = {} THEN Throw(createAttemptCount(db, "recover_password", requestId, t), "none", {})
      ELSE LET attemptCount == CHOOSE c \in found : TRUE
               count == attemptCount.count
               countIncreaseLastUpdateDate == attemptCount.countIncreaseLastUpdateDate
           IN  IF count < MAX_ATTEMPT_COUNT
                 THEN Throw(updateAttemptCount(db, "recover_password", attemptCount, count + 1, t),
                            "none", {})
               ELSE IF t - countIncreaseLastUpdateDate <= ONE_DAY_IN_SEC
                 THEN Throw(db, "WAIT_FOR_ANOTHER_DAY", {})
               ELSE Throw(updateAttemptCount(db, "recover_password", attemptCount, 0, t), "none", {})

\* the limiter with a cooldown that ends one step early
resetPasswordAttemptCount_shortCooldown(db, requestId, t) ==
  LET found == getByRequestId(db, "reset_password", requestId)
  IN  IF found = {} THEN Throw(createAttemptCount(db, "reset_password", requestId, t), "none", {})
      ELSE LET attemptCount == CHOOSE c \in found : TRUE
               count == attemptCount.count
               countIncreaseLastUpdateDate == attemptCount.countIncreaseLastUpdateDate
           IN  IF count < MAX_ATTEMPT_COUNT
                 THEN Throw(updateAttemptCount(db, "reset_password", attemptCount, count + 1, t),
                            "none", {})
               ELSE IF t - countIncreaseLastUpdateDate < ONE_DAY_IN_SEC
                 THEN Throw(db, "WAIT_FOR_ANOTHER_DAY", {})
               ELSE Throw(updateAttemptCount(db, "reset_password", attemptCount, 0, t), "none", {})

\* the limiter with the cap the earlier service wrote out
resetPasswordAttemptCount_literalCap(db, requestId, t) ==
  LET found == getByRequestId(db, "reset_password", requestId)
  IN  IF found = {} THEN Throw(createAttemptCount(db, "reset_password", requestId, t), "none", {})
      ELSE LET attemptCount == CHOOSE c \in found : TRUE
               count == attemptCount.count
               countIncreaseLastUpdateDate == attemptCount.countIncreaseLastUpdateDate
           IN  IF count < 5
                 THEN Throw(updateAttemptCount(db, "reset_password", attemptCount, count + 1, t),
                            "none", {})
               ELSE IF t - countIncreaseLastUpdateDate <= ONE_DAY_IN_SEC
                 THEN Throw(db, "WAIT_FOR_ANOTHER_DAY", {})
               ELSE Throw(updateAttemptCount(db, "reset_password", attemptCount, 0, t), "none", {})

resetPasswordAttemptCount(db, requestId, t) ==
  LET found == getByRequestId(db, "reset_password", requestId)
  IN  IF found = {} THEN Throw(createAttemptCount(db, "reset_password", requestId, t), "none", {})
      ELSE LET attemptCount == CHOOSE c \in found : TRUE
               count == attemptCount.count
               countIncreaseLastUpdateDate == attemptCount.countIncreaseLastUpdateDate
           IN  IF count < MAX_ATTEMPT_COUNT
                 THEN Throw(updateAttemptCount(db, "reset_password", attemptCount, count + 1, t),
                            "none", {})
               ELSE IF t - countIncreaseLastUpdateDate <= ONE_DAY_IN_SEC
                 THEN Throw(db, "WAIT_FOR_ANOTHER_DAY", {})
               ELSE Throw(updateAttemptCount(db, "reset_password", attemptCount, 0, t), "none", {})

\* the limiter with a reset that counts the send that caused it
accVerifyAttemptCount_resetToOne(db, requestId, t) ==
  LET found == getByRequestId(db, "account_verification", requestId)
  IN  IF found = {} THEN Throw(createAttemptCount(db, "account_verification", requestId, t), "none", {})
      ELSE LET attemptCount == CHOOSE c \in found : TRUE
               count == attemptCount.count
               countIncreaseLastUpdateDate == attemptCount.countIncreaseLastUpdateDate
           IN  IF count < MAX_ATTEMPT_COUNT
                 THEN Throw(updateAttemptCount(db, "account_verification", attemptCount, count + 1, t),
                            "none", {})
               ELSE IF t - countIncreaseLastUpdateDate <= ONE_DAY_IN_SEC
                 THEN Throw(db, "WAIT_FOR_ANOTHER_DAY", {})
               ELSE Throw(updateAttemptCount(db, "account_verification", attemptCount, 1, t), "none", {})

\* the limiter that creates no counter for a request that has none
accVerifyAttemptCount_noCreate(db, requestId, t) ==
  LET found == getByRequestId(db, "account_verification", requestId)
  IN  IF found = {} THEN Throw(db, "none", {})
      ELSE LET attemptCount == CHOOSE c \in found : TRUE
               count == attemptCount.count
               countIncreaseLastUpdateDate == attemptCount.countIncreaseLastUpdateDate
           IN  IF count < MAX_ATTEMPT_COUNT
                 THEN Throw(updateAttemptCount(db, "account_verification", attemptCount, count + 1, t),
                            "none", {})
               ELSE IF t - countIncreaseLastUpdateDate <= ONE_DAY_IN_SEC
                 THEN Throw(db, "WAIT_FOR_ANOTHER_DAY", {})
               ELSE Throw(updateAttemptCount(db, "account_verification", attemptCount, 0, t), "none", {})

accVerifyAttemptCount(db, requestId, t) ==
  LET found == getByRequestId(db, "account_verification", requestId)
  IN  IF found = {} THEN Throw(createAttemptCount(db, "account_verification", requestId, t), "none", {})
      ELSE LET attemptCount == CHOOSE c \in found : TRUE
               count == attemptCount.count
               countIncreaseLastUpdateDate == attemptCount.countIncreaseLastUpdateDate
           IN  IF count < MAX_ATTEMPT_COUNT
                 THEN Throw(updateAttemptCount(db, "account_verification", attemptCount, count + 1, t),
                            "none", {})
               ELSE IF t - countIncreaseLastUpdateDate <= ONE_DAY_IN_SEC
                 THEN Throw(db, "WAIT_FOR_ANOTHER_DAY", {})
               ELSE Throw(updateAttemptCount(db, "account_verification", attemptCount, 0, t), "none", {})

\* the callback with an insert in place of the upsert
recoverPasswordSendBody_alwaysCreate(db, email, newPasswordText, t, jti, id) ==
  IF email \notin db.users THEN Throw(db, "USER_NOT_FOUND", {})
  ELSE IF validateUser(db, email, TRUE, FALSE) # "none"
    THEN Throw(db, validateUser(db, email, TRUE, FALSE), {})
  ELSE
    LET userId == email
        securityToken == genRecoverPasswordToken(userId, jti, t)
        newPasswordHashed == Hash(newPasswordText)
        found == getByUserId(db, "recover_password", userId)
        db2 == IF FALSE
                 THEN updateById(db, "recover_password", (CHOOSE r \in found : TRUE).id,
                        [securityToken |-> securityToken,
                         newPassword |-> newPasswordHashed, jti |-> jti])
                 ELSE create(db, "recover_password", id,
                        [userId |-> userId, securityToken |-> securityToken,
                         newPassword |-> newPasswordHashed, jti |-> jti])
        recoverPassword == CHOOSE r \in getByUserId(db2, "recover_password", userId) : TRUE
        a == recoverPasswordAttemptCount(db2, recoverPassword.id, t)
    IN  IF a.err # "none" THEN a
        ELSE Sent(a.db, [kind |-> "recover_password", to |-> userId,
                         token |-> securityToken, text |-> newPasswordText])

\* the callback whose update leaves the pending hash of the earlier send
recoverPasswordSendBody_keepsPending(db, email, newPasswordText, t, jti, id) ==
  IF email \notin db.users THEN Throw(db, "USER_NOT_FOUND", {})
  ELSE IF validateUser(db, email, TRUE, FALSE) # "none"
    THEN Throw(db, validateUser(db, email, TRUE, FALSE), {})
  ELSE
    LET userId == email
        securityToken == genRecoverPasswordToken(userId, jti, t)
        newPasswordHashed == Hash(newPasswordText)
        found == getByUserId(db, "recover_password", userId)
        db2 == IF found # {}
                 THEN updateById(db, "recover_password", (CHOOSE r \in found : TRUE).id,
                        [securityToken |-> securityToken, jti |-> jti])
                 ELSE create(db, "recover_password", id,
                        [userId |-> userId, securityToken |-> securityToken,
                         newPassword |-> newPasswordHashed, jti |-> jti])
        recoverPassword == CHOOSE r \in getByUserId(db2, "recover_password", userId) : TRUE
        a == recoverPasswordAttemptCount(db2, recoverPassword.id, t)
    IN  IF a.err # "none" THEN a
        ELSE Sent(a.db, [kind |-> "recover_password", to |-> userId,
                         token |-> securityToken, text |-> newPasswordText])

\* recoverPasswordSend, the transaction callback
recoverPasswordSendBody(db, email, newPasswordText, t, jti, id) ==
  IF email \notin db.users THEN Throw(db, "USER_NOT_FOUND", {})
  ELSE IF validateUser(db, email, TRUE, FALSE) # "none"
    THEN Throw(db, validateUser(db, email, TRUE, FALSE), {})
  ELSE
    LET userId == email
        securityToken == genRecoverPasswordToken(userId, jti, t)
        newPasswordHashed == Hash(newPasswordText)
        found == getByUserId(db, "recover_password", userId)
        db2 == IF found # {}
                 THEN updateById(db, "recover_password", (CHOOSE r \in found : TRUE).id,
                        [securityToken |-> securityToken,
                         newPassword |-> newPasswordHashed, jti |-> jti])
                 ELSE create(db, "recover_password", id,
                        [userId |-> userId, securityToken |-> securityToken,
                         newPassword |-> newPasswordHashed, jti |-> jti])
        recoverPassword == CHOOSE r \in getByUserId(db2, "recover_password", userId) : TRUE
        a == recoverPasswordAttemptCount(db2, recoverPassword.id, t)
    IN  IF a.err # "none" THEN a
        ELSE Sent(a.db, [kind |-> "recover_password", to |-> userId,
                         token |-> securityToken, text |-> newPasswordText])

\* recoverPasswordSend as it would be without the transaction
recoverPasswordSend_noTransaction(db, email, newPasswordText, t, jti, id) ==
  recoverPasswordSendBody(db, email, newPasswordText, t, jti, id)

recoverPasswordSend(db, email, newPasswordText, t, jti, id) ==
  transaction_handle(db, recoverPasswordSendBody(db, email, newPasswordText, t, jti, id))

\* resetPasswordSend, the transaction callback
resetPasswordSendBody(db, userId, oldPassword, newPassword, t, jti, id) ==
  IF userId \notin db.users THEN Throw(db, "USER_NOT_FOUND", {})
  ELSE IF ~compare(oldPassword, db.identity[userId].password)
    THEN Throw(db, "PASSWORD_INVALID", {})
  ELSE IF oldPassword = newPassword THEN Throw(db, "NEW_PASSWORD_SAME", {})
  ELSE IF validateUser(db, userId, TRUE, FALSE) # "none"
    THEN Throw(db, validateUser(db, userId, TRUE, FALSE), {})
  ELSE
    LET securityToken == genResetPasswordToken(userId, jti, t)
        newPasswordHashed == Hash(newPassword)
        found == getByUserId(db, "reset_password", userId)
        db2 == IF found # {}
                 THEN updateById(db, "reset_password", (CHOOSE r \in found : TRUE).id,
                        [securityToken |-> securityToken,
                         newPassword |-> newPasswordHashed, jti |-> jti])
                 ELSE create(db, "reset_password", id,
                        [userId |-> userId, securityToken |-> securityToken,
                         newPassword |-> newPasswordHashed, jti |-> jti])
        resetPassword == CHOOSE r \in getByUserId(db2, "reset_password", userId) : TRUE
        a == resetPasswordAttemptCount(db2, resetPassword.id, t)
    IN  IF a.err # "none" THEN a
        ELSE Sent(a.db, [kind |-> "reset_password", to |-> userId,
                         token |-> securityToken, text |-> ""])

resetPasswordSend(db, userId, oldPassword, newPassword, t, jti, id) ==
  transaction_handle(db, resetPasswordSendBody(db, userId, oldPassword, newPassword, t, jti, id))

\* the send that does not look at the state of the account
pureAccountVerifySend_noValidate(db, email, t, jti, id) ==
  IF email \notin db.users THEN Throw(db, "USER_NOT_FOUND", {})
  ELSE IF FALSE
    THEN Throw(db, validateUser(db, email, FALSE, TRUE), {})
  ELSE
    LET userId == email
        securityToken == genAccountVerifyToken(userId, jti, t)
        found == getByUserId(db, "account_verification", userId)
        db2 == IF found # {}
                 THEN updateById(db, "account_verification", (CHOOSE r \in found : TRUE).id,
                        [securityToken |-> securityToken, jti |-> jti])
                 ELSE create(db, "account_verification", id,
                        [userId |-> userId, securityToken |-> securityToken, jti |-> jti])
        accountVerify == CHOOSE r \in getByUserId(db2, "account_verification", userId) : TRUE
        a == accVerifyAttemptCount(db2, accountVerify.id, t)
    IN  IF a.err # "none" THEN a
        ELSE Sent(a.db, [kind |-> "account_verification", to |-> userId,
                         token |-> securityToken, text |-> ""])

\* pureAccountVerifySend: runs inside the caller's transaction
pureAccountVerifySend(db, email, t, jti, id) ==
  IF email \notin db.users THEN Throw(db, "USER_NOT_FOUND", {})
  ELSE IF validateUser(db, email, FALSE, TRUE) # "none"
    THEN Throw(db, validateUser(db, email, FALSE, TRUE), {})
  ELSE
    LET userId == email
        securityToken == genAccountVerifyToken(userId, jti, t)
        found == getByUserId(db, "account_verification", userId)
        db2 == IF found # {}
                 THEN updateById(db, "account_verification", (CHOOSE r \in found : TRUE).id,
                        [securityToken |-> securityToken, jti |-> jti])
                 ELSE create(db, "account_verification", id,
                        [userId |-> userId, securityToken |-> securityToken, jti |-> jti])
        accountVerify == CHOOSE r \in getByUserId(db2, "account_verification", userId) : TRUE
        a == accVerifyAttemptCount(db2, accountVerify.id, t)
    IN  IF a.err # "none" THEN a
        ELSE Sent(a.db, [kind |-> "account_verification", to |-> userId,
                         token |-> securityToken, text |-> ""])

accountVerifySend(db, email, t, jti, id) ==
  transaction_handle(db, pureAccountVerifySend(db, email, t, jti, id))

(* ---------------------------- confirm handlers ------------------------ *)
\* <Flow>Service.getByJTI: the row with that jti, soft-deleted or not
getRequestByJTI(db, f, jti) == {r \in db.requests[f] : r.jti = jti}

\* <Flow>AttemptCountService.getBy<Flow>Id with includeDeleted true
getByRequestIdIncludeDeleted(db, f, requestId) ==
  {c \in db.counters[f] : c.requestId = requestId}

\* <Flow>Service.softDelete: stamp deletedAt
softDelete(db, f, id, t) ==
  [db EXCEPT !.requests[f] = {IF r.id = id THEN [r EXCEPT !.deletedAt = t] ELSE r : r \in @}]

\* <Flow>AttemptCountService.softDelete, by the id of the request
softDeleteAttemptCount(db, f, requestId, t) ==
  [db EXCEPT !.counters[f] =
     {IF c.requestId = requestId THEN [c EXCEPT !.deletedAt = t] ELSE c : c \in @}]

\* UserIdentityService.updatePasswordById
updatePasswordById(db, userId, hash) == [db EXCEPT !.identity[userId].password = hash]

\* UserIdentityService.updateIsAccVerified
updateIsAccVerified(db, userId, value) ==
  [db EXCEPT !.identity[userId].isAccountVerified = value]

\* JwtService.validate*Token: "none" or the error it throws
validateSecurityToken(kind, token, userId, jti, t) ==
  IF ~token.sig \/ token.kind # kind \/ token.userId # userId \/ token.jti # jti
    THEN "InvalidTokenError"
  ELSE IF t >= token.exp THEN "TokenExpiredException"
  ELSE "none"

validateAccountVerifyToken(token, userId, jti, t) ==
  validateSecurityToken("account_verification", token, userId, jti, t)
validateRecoverPasswordToken(token, userId, jti, t) ==
  validateSecurityToken("recover_password", token, userId, jti, t)
validateResetPasswordToken(token, userId, jti, t) ==
  validateSecurityToken("reset_password", token, userId, jti, t)

\* a handler body that throws an exception of the given class
ThrowAs(db, exception, err, sent) ==
  [db |-> db, err |-> err, resp |-> NoResp, mails |-> sent, token |-> Absent,
   exception |-> exception, text |-> ""]

\* a handler body that renders view/auth-response with the given text
Rendered(db, text) ==
  [db |-> db, err |-> "none", resp |-> NoResp, mails |-> {}, token |-> Absent,
   exception |-> "", text |-> text]

\* the callback with a replay window that ends one step early
resetPasswordConfirmBody_shortWindow(db, token, t) ==
  LET jti == token.jti
      userId == token.userId
      found == getRequestByJTI(db, "reset_password", jti)
  IN  IF userId \notin db.users THEN ThrowAs(db, "NotFoundException", "USER_NOT_FOUND", {})
      ELSE IF found # {} /\ (CHOOSE r \in found : TRUE).deletedAt # Null
        THEN LET resetPassword == CHOOSE r \in found : TRUE
                 counted == getByRequestIdIncludeDeleted(db, "reset_password", resetPassword.id)
                 attemptCount == CHOOSE c \in counted : TRUE
                 tommorowFromCreation == attemptCount.countIncreaseLastUpdateDate + ONE_DAY_IN_SEC
             IN  IF counted = {}
                   THEN ThrowAs(db, "InternalServerErrorException", "This should not happen", {})
                 ELSE IF tommorowFromCreation - t <= 0
                   THEN IF db.identity[userId].strictMode
                          THEN ThrowAs(updateIsLockedById(db, userId, TRUE), "ForbiddenException",
                                       "RESET_PASSWORD_TOKEN_REUSE", {reuseMail(userId, TRUE)})
                          ELSE ThrowAs(db, "ForbiddenException", "RESET_PASSWORD_TOKEN_REUSE",
                                       {reuseMail(userId, FALSE)})
                 ELSE Rendered(db, "Reset password already requested")
      ELSE IF found = {}
        THEN ThrowAs(db, "NotFoundException", "RESET_PASSWORD_REQUEST_NOT_FOUND", {})
      ELSE
        LET resetPassword == CHOOSE r \in found : TRUE
        IN  IF token # resetPassword.securityToken
              THEN ThrowAs(db, "ForbiddenException", "RESET_PASSWORD_REQUEST_INVALID", {})
            ELSE IF validateUser(db, userId, TRUE, FALSE) # "none"
              THEN ThrowAs(db, "Exception", validateUser(db, userId, TRUE, FALSE), {})
            ELSE IF validateResetPasswordToken(token, userId, resetPassword.jti, t) # "none"
              THEN ThrowAs(db, "Exception", validateResetPasswordToken(token, userId, resetPassword.jti, t), {})
            ELSE Rendered(
                   softDeleteAttemptCount(
                     softDelete(updatePasswordById(db, userId, resetPassword.newPassword), "reset_password", resetPassword.id, t),
                     "reset_password", resetPassword.id, t),
                   "Reset password was successsfull")

\* resetPasswordConfirm, the transaction callback
resetPasswordConfirmBody(db, token, t) ==
  LET jti == token.jti
      userId == token.userId
      found == getRequestByJTI(db, "reset_password", jti)
  IN  IF userId \notin db.users THEN ThrowAs(db, "NotFoundException", "USER_NOT_FOUND", {})
      ELSE IF found # {} /\ (CHOOSE r \in found : TRUE).deletedAt # Null
        THEN LET resetPassword == CHOOSE r \in found : TRUE
                 counted == getByRequestIdIncludeDeleted(db, "reset_password", resetPassword.id)
                 attemptCount == CHOOSE c \in counted : TRUE
                 tommorowFromCreation == attemptCount.countIncreaseLastUpdateDate + ONE_DAY_IN_SEC
             IN  IF counted = {}
                   THEN ThrowAs(db, "InternalServerErrorException", "This should not happen", {})
                 ELSE IF tommorowFromCreation - t < 0
                   THEN IF db.identity[userId].strictMode
                          THEN ThrowAs(updateIsLockedById(db, userId, TRUE), "ForbiddenException",
                                       "RESET_PASSWORD_TOKEN_REUSE", {reuseMail(userId, TRUE)})
                          ELSE ThrowAs(db, "ForbiddenException", "RESET_PASSWORD_TOKEN_REUSE",
                                       {reuseMail(userId, FALSE)})
                 ELSE Rendered(db, "Reset password already requested")
      ELSE IF found = {}
        THEN ThrowAs(db, "NotFoundException", "RESET_PASSWORD_REQUEST_NOT_FOUND", {})
      ELSE
        LET resetPassword == CHOOSE r \in found : TRUE
        IN  IF token # resetPassword.securityToken
              THEN ThrowAs(db, "ForbiddenException", "RESET_PASSWORD_REQUEST_INVALID", {})
            ELSE IF validateUser(db, userId, TRUE, FALSE) # "none"
              THEN ThrowAs(db, "Exception", validateUser(db, userId, TRUE, FALSE), {})
            ELSE IF validateResetPasswordToken(token, userId, resetPassword.jti, t) # "none"
              THEN ThrowAs(db, "Exception", validateResetPasswordToken(token, userId, resetPassword.jti, t), {})
            ELSE Rendered(
                   softDeleteAttemptCount(
                     softDelete(updatePasswordById(db, userId, resetPassword.newPassword), "reset_password", resetPassword.id, t),
                     "reset_password", resetPassword.id, t),
                   "Reset password was successsfull")

resetPasswordConfirm(db, token, t) == transaction_handle(db, resetPasswordConfirmBody(db, token, t))

\* the callback without the comparison with the stored token
recoverPasswordConfirmBody_noLiteralCheck(db, token, t) ==
  LET jti == token.jti
      userId == token.userId
      found == getRequestByJTI(db, "recover_password", jti)
  IN  IF userId \notin db.users THEN ThrowAs(db, "NotFoundException", "USER_NOT_FOUND", {})
      ELSE IF found # {} /\ (CHOOSE r \in found : TRUE).deletedAt # Null
        THEN LET recoverPassword == CHOOSE r \in found : TRUE
                 counted == getByRequestIdIncludeDeleted(db, "recover_password", recoverPassword.id)
                 attemptCount == CHOOSE c \in counted : TRUE
                 tommorowFromCreation == attemptCount.countIncreaseLastUpdateDate + ONE_DAY_IN_SEC
             IN  IF counted = {}
                   THEN ThrowAs(db, "InternalServerErrorException", "This should not happen", {})
                 ELSE IF tommorowFromCreation - t < 0
                   THEN IF db.identity[userId].strictMode
                          THEN ThrowAs(updateIsLockedById(db, userId, TRUE), "ForbiddenException",
                                       "RECOVER_PASSWORD_TOKEN_REUSE", {reuseMail(userId, TRUE)})
                          ELSE ThrowAs(db, "ForbiddenException", "RECOVER_PASSWORD_TOKEN_REUSE",
                                       {reuseMail(userId, FALSE)})
                 ELSE Rendered(db, "Recover password already requested")
      ELSE IF found = {}
        THEN ThrowAs(db, "NotFoundException", "RECOVER_PASSWORD_REQUEST_NOT_FOUND", {})
      ELSE
        LET recoverPassword == CHOOSE r \in found : TRUE
        IN  IF FALSE
              THEN ThrowAs(db, "ForbiddenException", "RECOVER_PASSWORD_REQUEST_INVALID", {})
            ELSE IF validateUser(db, userId, TRUE, FALSE) # "none"
              THEN ThrowAs(db, "Exception", validateUser(db, userId, TRUE, FALSE), {})
            ELSE IF validateRecoverPasswordToken(token, userId, recoverPassword.jti, t) # "none"
              THEN ThrowAs(db, "Exception", validateRecoverPasswordToken(token, userId, recoverPassword.jti, t), {})
            ELSE Rendered(
                   softDeleteAttemptCount(
                     softDelete(updatePasswordById(db, userId, recoverPassword.newPassword), "recover_password", recoverPassword.id, t),
                     "recover_password", recoverPassword.id, t),
                   "Recover password was successsfull")

\* the callback that applies the password and leaves the request and its counter live
recoverPasswordConfirmBody_noSoftDelete(db, token, t) ==
  LET jti == token.jti
      userId == token.userId
      found == getRequestByJTI(db, "recover_password", jti)
  IN  IF userId \notin db.users THEN ThrowAs(db, "NotFoundException", "USER_NOT_FOUND", {})
      ELSE IF found # {} /\ (CHOOSE r \in found : TRUE).deletedAt # Null
        THEN LET recoverPassword == CHOOSE r \in found : TRUE
                 counted == getByRequestIdIncludeDeleted(db, "recover_password", recoverPassword.id)
                 attemptCount == CHOOSE c \in counted : TRUE
                 tommorowFromCreation == attemptCount.countIncreaseLastUpdateDate + ONE_DAY_IN_SEC
             IN  IF counted = {}
                   THEN ThrowAs(db, "InternalServerErrorException", "This should not happen", {})
                 ELSE IF tommorowFromCreation - t < 0
                   THEN IF db.identity[userId].strictMode
                          THEN ThrowAs(updateIsLockedById(db, userId, TRUE), "ForbiddenException",
                                       "RECOVER_PASSWORD_TOKEN_REUSE", {reuseMail(userId, TRUE)})
                          ELSE ThrowAs(db, "ForbiddenException", "RECOVER_PASSWORD_TOKEN_REUSE",
                                       {reuseMail(userId, FALSE)})
                 ELSE Rendered(db, "Recover password already requested")
      ELSE IF found = {}
        THEN ThrowAs(db, "NotFoundException", "RECOVER_PASSWORD_REQUEST_NOT_FOUND", {})
      ELSE
        LET recoverPassword == CHOOSE r \in found : TRUE
        IN  IF token # recoverPassword.securityToken
              THEN ThrowAs(db, "ForbiddenException", "RECOVER_PASSWORD_REQUEST_INVALID", {})
            ELSE IF validateUser(db, userId, TRUE, FALSE) # "none"
              THEN ThrowAs(db, "Exception", validateUser(db, userId, TRUE, FALSE), {})
            ELSE IF validateRecoverPasswordToken(token, userId, recoverPassword.jti, t) # "none"
              THEN ThrowAs(db, "Exception", validateRecoverPasswordToken(token, userId, recoverPassword.jti, t), {})
            ELSE Rendered(updatePasswordById(db, userId, recoverPassword.newPassword),
                          "Recover password was successsfull")

\* recoverPasswordConfirm, the transaction callback
recoverPasswordConfirmBody(db, token, t) ==
  LET jti == token.jti
      userId == token.userId
      found == getRequestByJTI(db, "recover_password", jti)
  IN  IF userId \notin db.users THEN ThrowAs(db, "NotFoundException", "USER_NOT_FOUND", {})
      ELSE IF found # {} /\ (CHOOSE r \in found : TRUE).deletedAt # Null
        THEN LET recoverPassword == CHOOSE r \in found : TRUE
                 counted == getByRequestIdIncludeDeleted(db, "recover_password", recoverPassword.id)
                 attemptCount == CHOOSE c \in counted : TRUE
                 tommorowFromCreation == attemptCount.countIncreaseLastUpdateDate + ONE_DAY_IN_SEC
             IN  IF counted = {}
                   THEN ThrowAs(db, "InternalServerErrorException", "This should not happen", {})
                 ELSE IF tommorowFromCreation - t < 0
                   THEN IF db.identity[userId].strictMode
                          THEN ThrowAs(updateIsLockedById(db, userId, TRUE), "ForbiddenException",
                                       "RECOVER_PASSWORD_TOKEN_REUSE", {reuseMail(userId, TRUE)})
                          ELSE ThrowAs(db, "ForbiddenException", "RECOVER_PASSWORD_TOKEN_REUSE",
                                       {reuseMail(userId, FALSE)})
                 ELSE Rendered(db, "Recover password already requested")
      ELSE IF found = {}
        THEN ThrowAs(db, "NotFoundException", "RECOVER_PASSWORD_REQUEST_NOT_FOUND", {})
      ELSE
        LET recoverPassword == CHOOSE r \in found : TRUE
        IN  IF token # recoverPassword.securityToken
              THEN ThrowAs(db, "ForbiddenException", "RECOVER_PASSWORD_REQUEST_INVALID", {})
            ELSE IF validateUser(db, userId, TRUE, FALSE) # "none"
              THEN ThrowAs(db, "Exception", validateUser(db, userId, TRUE, FALSE), {})
            ELSE IF validateRecoverPasswordToken(token, userId, recoverPassword.jti, t) # "none"
              THEN ThrowAs(db, "Exception", validateRecoverPasswordToken(token, userId, recoverPassword.jti, t), {})
            ELSE Rendered(
                   softDeleteAttemptCount(
                     softDelete(updatePasswordById(db, userId, recoverPassword.newPassword), "recover_password", recoverPassword.id, t),
                     "recover_password", recoverPassword.id, t),
                   "Recover password was successsfull")

recoverPasswordConfirm(db, token, t) == transaction_handle(db, recoverPasswordConfirmBody(db, token, t))

\* the callback that soft-deletes the request but not its attempt counter
accountVerificationConfirmBody_keepsCounter(db, token, t) ==
  LET jti == token.jti
      userId == token.userId
      found == getRequestByJTI(db, "account_verification", jti)
  IN  IF userId \notin db.users THEN ThrowAs(db, "NotFoundException", "USER_NOT_FOUND", {})
      ELSE IF found # {} /\ (CHOOSE r \in found : TRUE).deletedAt # Null
        THEN LET accountVerify == CHOOSE r \in found : TRUE
                 counted == getByRequestIdIncludeDeleted(db, "account_verification", accountVerify.id)
                 attemptCount == CHOOSE c \in counted : TRUE
                 tommorowFromCreation == attemptCount.countIncreaseLastUpdateDate + ONE_DAY_IN_SEC
             IN  IF counted = {}
                   THEN ThrowAs(db, "InternalServerErrorException", "This should not happen", {})
                 ELSE IF tommorowFromCreation - t < 0
                   THEN IF db.identity[userId].strictMode
                          THEN ThrowAs(updateIsLockedById(db, userId, TRUE), "ForbiddenException",
                                       "ACCOUNT_VERIFICATION_TOKEN_REUSE", {reuseMail(userId, TRUE)})
                          ELSE ThrowAs(db, "ForbiddenException", "ACCOUNT_VERIFICATION_TOKEN_REUSE",
                                       {reuseMail(userId, FALSE)})
                 ELSE Rendered(db, "Account verify already requested")
      ELSE IF found = {}
        THEN ThrowAs(db, "ForbiddenException", "ACCOUNT_VERIFICATION_REQUEST_NOT_FOUND", {})
      ELSE
        LET accountVerify == CHOOSE r \in found : TRUE
        IN  IF token # accountVerify.securityToken
              THEN ThrowAs(db, "ForbiddenException", "ACCOUNT_VERIFICATION_REQUEST_INVALID", {})
            ELSE IF validateUser(db, userId, FALSE, TRUE) # "none"
              THEN ThrowAs(db, "Exception", validateUser(db, userId, FALSE, TRUE), {})
            ELSE IF validateAccountVerifyToken(token, userId, accountVerify.jti, t) # "none"
              THEN ThrowAs(db, "Exception", validateAccountVerifyToken(token, userId, accountVerify.jti, t), {})
            ELSE Rendered(
                   softDeleteAttemptCount(
                     softDelete(updateIsLockedById(updateIsAccVerified(db, userId, TRUE), userId, FALSE), "account_verification", accountVerify.id, t),
                     "account_verification", 0, t),
                   "Account verify was successsfull")

\* accountVerificationConfirm, the transaction callback
accountVerificationConfirmBody(db, token, t) ==
  LET jti == token.jti
      userId == token.userId
      found == getRequestByJTI(db, "account_verification", jti)
  IN  IF userId \notin db.users THEN ThrowAs(db, "NotFoundException", "USER_NOT_FOUND", {})
      ELSE IF found # {} /\ (CHOOSE r \in found : TRUE).deletedAt # Null
        THEN LET accountVerify == CHOOSE r \in found : TRUE
                 counted == getByRequestIdIncludeDeleted(db, "account_verification", accountVerify.id)
                 attemptCount == CHOOSE c \in counted : TRUE
                 tommorowFromCreation == attemptCount.countIncreaseLastUpdateDate + ONE_DAY_IN_SEC
             IN  IF counted = {}
                   THEN ThrowAs(db, "InternalServerErrorException", "This should not happen", {})
                 ELSE IF tommorowFromCreation - t < 0
                   THEN IF db.identity[userId].strictMode
                          THEN ThrowAs(updateIsLockedById(db, userId, TRUE), "ForbiddenException",
                                       "ACCOUNT_VERIFICATION_TOKEN_REUSE", {reuseMail(userId, TRUE)})
                          ELSE ThrowAs(db, "ForbiddenException", "ACCOUNT_VERIFICATION_TOKEN_REUSE",
                                       {reuseMail(userId, FALSE)})
                 ELSE Rendered(db, "Account verify already requested")
      ELSE IF found = {}
        THEN ThrowAs(db, "ForbiddenException", "ACCOUNT_VERIFICATION_REQUEST_NOT_FOUND", {})
      ELSE
        LET accountVerify == CHOOSE r \in found : TRUE
        IN  IF token # accountVerify.securityToken
              THEN ThrowAs(db, "ForbiddenException", "ACCOUNT_VERIFICATION_REQUEST_INVALID", {})
            ELSE IF validateUser(db, userId, FALSE, TRUE) # "none"
              THEN ThrowAs(db, "Exception", validateUser(db, userId, FALSE, TRUE), {})
            ELSE IF validateAccountVerifyToken(token, userId, accountVerify.jti, t) # "none"
              THEN ThrowAs(db, "Exception", validateAccountVerifyToken(token, userId, accountVerify.jti, t), {})
            ELSE Rendered(
                   softDeleteAttemptCount(
                     softDelete(updateIsLockedById(updateIsAccVerified(db, userId, TRUE), userId, FALSE), "account_verification", accountVerify.id, t),
                     "account_verification", accountVerify.id, t),
                   "Account verify was successsfull")

accountVerificationConfirm(db, token, t) == transaction_handle(db, accountVerificationConfirmBody(db, token, t))

(* ---------------------------- the ledger as a state machine ------------ *)
\* the first account: strict mode, verified or not, locked or not
IdentityRows ==
  [password : {Hash("secret")}, isAccountVerified : BOOLEAN,
   isLocked : BOOLEAN, strictMode : {TRUE}]

\* the other accounts: verified, unlocked, without strict mode
SettledIdentity ==
  [password |-> Hash("secret"), isAccountVerified |-> TRUE,
   isLocked |-> FALSE, strictMode |-> FALSE]

NoCall == [op |-> "none", userId |-> 0, jti |-> 0, sig |-> FALSE, err |-> "none"]

\* a request handler that is running no call
Idle ==
  [pc |-> "idle", token |-> Absent, platform |-> "web", refreshTokenFromDB |-> {},
   overlaps |-> FALSE, err |-> "none"]

Init ==
  /\ now = 0
  /\ encryptionActive = FALSE
  /\ users = UserIds
  /\ identity \in {[u \in UserIds |-> IF u = 1 THEN r ELSE SettledIdentity] :
                     r \in IdentityRows}
  /\ refreshTokens = {}
  /\ nextJti = 1
  /\ issued = {}
  /\ mails = {}
  /\ consumed = {}
  /\ last = NoCall
  /\ requests = [f \in Flows |-> {}]
  /\ counters = [f \in Flows |-> {}]
  /\ nextId = [f \in Flows |-> 1]
  /\ sends = [f \in Flows |-> [u \in UserIds |-> 0]]
  /\ inflight = [p \in Handlers |-> Idle]
  /\ mailed = {}

\* tokens a client cannot have been given, their signature does not verify:
\* the claims of an issued token signed with another key, and the claims
\* of a user that has no row
Forged ==
  {[w EXCEPT !.jwt.sig = FALSE] : w \in issued} \cup
  {Plain([userId |-> NUsers + 1, jti |-> 1, iat |-> 0, exp |-> MaxTime + 1, sig |-> FALSE])}

Presentable == issued \cup Forged \cup {Absent, Garbage}

\* the claims a handler reads from what was presented
Decoded(w) ==
  LET final == IF encryptionActive THEN decrypt(w) ELSE w
  IN  IF canDecode(final) THEN getRefreshTokenPayload(final) ELSE NullJwt

Commit(db) ==
  /\ users' = db.users
  /\ identity' = db.identity
  /\ refreshTokens' = db.refreshTokens
  /\ requests' = db.requests
  /\ counters' = db.counters

Deliver(r) ==
  /\ nextJti' = IF r.err = "none" /\ r.db.refreshTokens \ refreshTokens # {}
                  THEN nextJti + 1 ELSE nextJti
  /\ issued' = IF r.token.form = "absent" THEN issued ELSE issued \cup {r.token}
  /\ mails' = r.mails

SignIn(email, password, platform) ==
  LET r == signInWithToken(DB, email, password, platform, encryptionActive, now, nextJti)
  IN  /\ r.err = "none" => nextJti <= MaxJti
      /\ Commit(r.db)
      /\ Deliver(r)
      /\ last' = [op |-> "signIn", userId |-> email, jti |-> 0, sig |-> FALSE,
                  err |-> r.err]
      /\ UNCHANGED <<now, encryptionActive, consumed, flowVars>>

RefreshToken(w, platform) ==
  LET r == refreshToken(DB, w, platform, encryptionActive, now, nextJti)
      claims == Decoded(w)
  IN  /\ r.err = "none" => nextJti <= MaxJti
      /\ Commit(r.db)
      /\ Deliver(r)
      /\ consumed' = IF r.err = "none" THEN consumed \cup {claims.jti} ELSE consumed
      /\ last' = [op |-> "refreshToken", userId |-> claims.userId, jti |-> claims.jti,
                  sig |-> claims.sig, err |-> r.err]
      /\ UNCHANGED <<now, encryptionActive, flowVars>>

SignOut(w, platform) ==
  LET r == signOut(DB, w, platform, encryptionActive)
      claims == Decoded(w)
  IN  /\ Commit(r.db)
      /\ Deliver(r)
      /\ last' = [op |-> "signOut", userId |-> claims.userId, jti |-> claims.jti,
                  sig |-> claims.sig, err |-> r.err]
      /\ UNCHANGED <<now, encryptionActive, consumed, flowVars>>

Tick ==
  /\ now < MaxTime
  /\ now' = now + 1
  /\ UNCHANGED <<encryptionActive, users, identity, refreshTokens, nextJti, issued,
                 mails, consumed, last, requests, counters, flowVars>>

Next ==
  \/ \E e \in TokenUserIds, p \in {"secret", "wrong"}, pf \in Platforms : SignIn(e, p, pf)
  \/ \E w \in Presentable, pf \in Platforms : RefreshToken(w, pf)
  \/ \E w \in Presentable, pf \in Platforms : SignOut(w, pf)
  \/ Tick

Spec == Init /\ [][Next]_vars

(* ---------------------------- refresh-token rotation ------------------- *)
RowsOf(rows, userId) == {r \in rows : r.userId = userId}

\* C1: once a refreshToken call presenting a token has succeeded, every
\* later call presenting that same token fails with REFRESH_TOKEN_REUSE, so
\* at most one call per token succeeds.
C1_RotationExclusive ==
  [][\A w \in Presentable, pf \in Platforms :
       (RefreshToken(w, pf) /\ Decoded(w).sig /\ Decoded(w).jti \in consumed)
         => last'.err = "REFRESH_TOKEN_REUSE"]_vars

\* C2: a successful refreshToken call leaves no record of the presented jti
\* and leaves the number of the user's records as it was (one deleted, one
\* issued).
C2_RotationConsumesOld ==
  [][\A w \in Presentable, pf \in Platforms :
       (RefreshToken(w, pf) /\ last'.err = "none")
         => /\ getByJTI(DB', Decoded(w).jti) = {}
            /\ Cardinality(RowsOf(refreshTokens', Decoded(w).userId))
                 = Cardinality(RowsOf(refreshTokens, Decoded(w).userId))]_vars

\* C4: after a refreshToken call failed with REFRESH_TOKEN_REUSE the store
\* holds no refresh-token record of the user named in the token.
C4_ReuseRevokesAll ==
  (last.op = "refreshToken" /\ last.err = "REFRESH_TOKEN_REUSE")
    => RowsOf(refreshTokens, last.userId) = {}

\* C5: after a refreshToken call failed with REFRESH_TOKEN_REUSE the account
\* is locked if the identity has strictMode, and is as unlocked as it was
\* (the call got past validateUser) if it has not.
C5_ReuseLocksStrict ==
  (last.op = "refreshToken" /\ last.err = "REFRESH_TOKEN_REUSE")
    => identity[last.userId].isLocked = identity[last.userId].strictMode

C7_ExpiryDeletesOne ==
  [][\A w \in Presentable, pf \in Platforms :
       (RefreshToken(w, pf) /\ last'.err = "RefreshTokenExpiredException")
         => /\ getByJTI(DB, Decoded(w).jti) # {}
            /\ refreshTokens' = refreshTokens \ getByJTI(DB, Decoded(w).jti)
            /\ identity' = identity]_vars

(* ---------------------------- the flows as a state machine ------------ *)
\* the clock of the flows runs one step past the cooldown
MaxFlowTime == ONE_DAY_IN_SEC + 1
\* successful sends in one behaviour: a full window, its reset and one more
MaxSends == MAX_ATTEMPT_COUNT + 2

\* random.genRandStringFromCharset: the temporary passwords it may draw
TempPasswords == {"tmpA", "tmpB"}
\* what a user types as a password
TypedPasswords == {"secret", "fresh", "wrong"}

RECURSIVE SumOver(_, _)
SumOver(f, S) ==
  IF S = {} THEN 0
  ELSE LET x == CHOOSE y \in S : TRUE IN f[x] + SumOver(f, S \ {x})

TotalSends == SumOver([f \in Flows |-> SumOver(sends[f], UserIds)], Flows)

\* uuid(): a value no other call returns, named here by the flow, the user
\* and the number of the send
uuid(f, userId) ==
  IF userId \in UserIds THEN <<f, userId, sends[f][userId] + 1>> ELSE <<f, userId, 0>>

\* a send call ends: the transaction's outcome is the database, the mail
\* goes out, the bookkeeping of ids follows what was written
FinishSend(op, f, userId, r) ==
  /\ r.err = "none" => TotalSends < MaxSends
  /\ Commit(r.db)
  /\ mails' = r.mails
  /\ mailed' = mailed \cup {m.token : m \in r.mails}
  /\ nextId' = IF r.db.requests[f] \ requests[f] # {} /\ r.db.requests[f] # requests[f]
                    /\ \E row \in r.db.requests[f] : row.id = nextId[f]
                 THEN [nextId EXCEPT ![f] = @ + 1] ELSE nextId
  /\ sends' = IF r.err = "none" THEN [sends EXCEPT ![f][userId] = @ + 1] ELSE sends
  /\ last' = [op |-> op, userId |-> userId, jti |-> 0, sig |-> FALSE, err |-> r.err]
  /\ UNCHANGED <<now, encryptionActive, nextJti, issued, consumed, inflight>>

RecoverPasswordSend(email, newPasswordText) ==
  FinishSend("recoverPasswordSend", "recover_password", email,
             recoverPasswordSend(DB, email, newPasswordText, now,
                                 uuid("recover_password", email), nextId["recover_password"]))

ResetPasswordSend(userId, oldPassword, newPassword) ==
  FinishSend("resetPasswordSend", "reset_password", userId,
             resetPasswordSend(DB, userId, oldPassword, newPassword, now,
                               uuid("reset_password", userId), nextId["reset_password"]))

AccountVerifySend(email) ==
  FinishSend("accountVerifySend", "account_verification", email,
             accountVerifySend(DB, email, now, uuid("account_verification", email),
                               nextId["account_verification"]))

TickFlow ==
  /\ now < MaxFlowTime
  /\ now' = now + 1
  /\ UNCHANGED <<encryptionActive, users, identity, refreshTokens, nextJti, issued,
                 mails, consumed, last, requests, counters, flowVars>>

NextFlow ==
  \/ \E e \in TokenUserIds, pw \in TempPasswords : RecoverPasswordSend(e, pw)
  \/ \E u \in UserIds, old \in TypedPasswords, new \in TypedPasswords :
       ResetPasswordSend(u, old, new)
  \/ \E e \in TokenUserIds : AccountVerifySend(e)
  \/ TickFlow

\* the flows start from the ledger's initial state, but with the other
\* accounts not yet verified
FreshIdentity == [SettledIdentity EXCEPT !.isAccountVerified = FALSE]

InitFlow ==
  /\ now = 0
  /\ encryptionActive = FALSE
  /\ users = UserIds
  /\ identity \in {[u \in UserIds |-> IF u = 1 THEN r ELSE FreshIdentity] :
                     r \in IdentityRows}
  /\ refreshTokens = {}
  /\ nextJti = 1
  /\ issued = {}
  /\ mails = {}
  /\ consumed = {}
  /\ last = NoCall
  /\ requests = [f \in Flows |-> {}]
  /\ counters = [f \in Flows |-> {}]
  /\ nextId = [f \in Flows |-> 1]
  /\ sends = [f \in Flows |-> [u \in UserIds |-> 0]]
  /\ inflight = [p \in Handlers |-> Idle]
  /\ mailed = {}

SpecFlow == InitFlow /\ [][NextFlow]_vars

(* ---------------------------- the attempt limiter --------------------- *)
SendOps == {"recoverPasswordSend", "resetPasswordSend", "accountVerifySend"}

FlowOf(op) ==
  IF op = "recoverPasswordSend" THEN "recover_password"
  ELSE IF op = "resetPasswordSend" THEN "reset_password"
  ELSE "account_verification"

\* the live attempt counters of a user's live request in a flow
CountersOf(f, userId) ==
  UNION {getByRequestId(DB, f, r.id) : r \in getByUserId(DB, f, userId)}

\* a step in which a send call that reached the limiter ends
SendReachedLimiter ==
  /\ now' = now
  /\ last'.op \in SendOps
  /\ last'.err \in {"none", "WAIT_FOR_ANOTHER_DAY"}

\* C8: while a user's successful sends in a flow number n, 1 <= n <=
\* MAX_ATTEMPT_COUNT, counted from no request and no counter, the request
\* has exactly one attempt counter and its count is n.
C8_CountTracksSends ==
  \A f \in Flows, u \in UserIds :
    sends[f][u] \in 1..MAX_ATTEMPT_COUNT =>
      /\ Cardinality(CountersOf(f, u)) = 1
      /\ \A c \in CountersOf(f, u) : c.count = sends[f][u]

\* three recover-password sends have succeeded and the counter stands at 3
C8_Witness ==
  /\ sends["recover_password"][1] = 3
  /\ \E c \in CountersOf("recover_password", 1) : c.count = 3

\* C9: a send that reaches the limiter succeeds while fewer than
\* MAX_ATTEMPT_COUNT sends have succeeded; once MAX_ATTEMPT_COUNT have, every
\* send made no more than ONE_DAY_IN_SEC after the last of them fails with
\* WAIT_FOR_ANOTHER_DAY.
C9_CapThenWait ==
  [][SendReachedLimiter =>
       LET f == FlowOf(last'.op)
           u == last'.userId
       IN  /\ sends[f][u] < MAX_ATTEMPT_COUNT => last'.err = "none"
           /\ (/\ sends[f][u] = MAX_ATTEMPT_COUNT
               /\ \A c \in CountersOf(f, u) :
                    now - c.countIncreaseLastUpdateDate <= ONE_DAY_IN_SEC)
                => last'.err = "WAIT_FOR_ANOTHER_DAY"]_vars

\* a reset-password send has been refused after MAX_ATTEMPT_COUNT successes,
\* a full cooldown after the last of them
C9_Witness ==
  /\ last.op = "resetPasswordSend"
  /\ last.err = "WAIT_FOR_ANOTHER_DAY"
  /\ sends["reset_password"][last.userId] = MAX_ATTEMPT_COUNT
  /\ \E c \in CountersOf("reset_password", last.userId) :
       now - c.countIncreaseLastUpdateDate = ONE_DAY_IN_SEC

\* C10: a send call that ends with WAIT_FOR_ANOTHER_DAY leaves every request
\* row and every attempt counter as it found them.
C10_RefusalMutatesNothing ==
  [][(now' = now /\ last'.op \in SendOps /\ last'.err = "WAIT_FOR_ANOTHER_DAY") =>
       /\ requests' = requests
       /\ counters' = counters]_vars

\* a recover-password send has been refused; the request row and its full
\* counter are in place
C10_Witness ==
  /\ last.op = "recoverPasswordSend"
  /\ last.err = "WAIT_FOR_ANOTHER_DAY"
  /\ \E r \in getByUserId(DB, "recover_password", last.userId) :
       /\ r.jti = <<"recover_password", last.userId, MAX_ATTEMPT_COUNT>>
       /\ \E c \in getByRequestId(DB, "recover_password", r.id) :
            c.count = MAX_ATTEMPT_COUNT

(* ---------------------------- refreshToken calls side by side --------- *)
\* A refreshToken call runs in a transaction of its own (read committed):
\* it reads the record of the presented token (line 186), and what follows
\* runs later, against the database as it then stands; the transaction
\* commits when the callback returns and rolls back when it throws.

\* lines 171-186: decode what was presented and read its record
RtLookup(p, w, platform) ==
  LET final == IF encryptionActive THEN decrypt(w) ELSE w
      early == refreshTokenBody(DB, w, platform, encryptionActive, now, nextJti)
  IN  /\ inflight[p].pc = "idle"
      /\ inflight' = [inflight EXCEPT ![p] =
           IF final.form = "absent" \/ ~canDecode(final)
             THEN [Idle EXCEPT !.pc = "done", !.token = w, !.platform = platform,
                               !.err = early.err]
             ELSE [Idle EXCEPT !.pc = "looked", !.token = w, !.platform = platform,
                     !.refreshTokenFromDB = getByJTI(DB, getRefreshTokenPayload(final).jti),
                     !.overlaps = \E q \in Handlers \ {p} :
                                      /\ inflight[q].pc = "looked"
                                      /\ Decoded(inflight[q].token).jti = Decoded(w).jti]]
      /\ UNCHANGED <<now, encryptionActive, users, identity, refreshTokens, nextJti,
                     issued, mails, consumed, last, requests, counters, nextId, sends,
                     mailed>>

\* lines 188-239 and the end of the transaction
RtFinish(p) ==
  LET c == inflight[p]
      final == IF encryptionActive THEN decrypt(c.token) ELSE c.token
      r == transaction_handle(DB,
             refreshTokenAfterLookup(DB, final, c.refreshTokenFromDB, c.platform,
                                     encryptionActive, now, nextJti))
      claims == Decoded(c.token)
  IN  /\ c.pc = "looked"
      /\ r.err = "none" => nextJti <= MaxJti
      /\ Commit(r.db)
      /\ Deliver(r)
      /\ consumed' = IF r.err = "none" THEN consumed \cup {claims.jti} ELSE consumed
      /\ last' = [op |-> "refreshToken", userId |-> claims.userId, jti |-> claims.jti,
                  sig |-> claims.sig, err |-> r.err]
      /\ inflight' = [inflight EXCEPT ![p].pc = "done", ![p].err = r.err]
      /\ UNCHANGED <<now, encryptionActive, nextId, sends, mailed>>

\* the response has gone out; the handler takes the next request
RtReturn(p) ==
  /\ inflight[p].pc = "done"
  /\ inflight' = [inflight EXCEPT ![p] = Idle]
  /\ UNCHANGED <<now, encryptionActive, users, identity, refreshTokens, nextJti,
                 issued, mails, consumed, last, requests, counters, nextId, sends,
                     mailed>>

NextConc ==
  \/ \E e \in UserIds : SignIn(e, "secret", "web")
  \/ \E p \in Handlers, w \in Presentable : RtLookup(p, w, "web")
  \/ \E p \in Handlers : RtFinish(p)
  \/ \E p \in Handlers : RtReturn(p)

SpecConc == Init /\ [][NextConc]_vars

\* C3: of two refreshToken calls that present the same old token and run
\* side by side, at most one returns a new token pair.
C3_ConcurrentRotationExclusive ==
  \A p, q \in Handlers :
    (/\ p # q
     /\ inflight[p].pc = "done" /\ inflight[q].pc = "done"
     /\ inflight[p].overlaps
     /\ Decoded(inflight[p].token).jti = Decoded(inflight[q].token).jti
     /\ inflight[p].err = "none")
      => inflight[q].err # "none"

(* ---------------------------- the limiter's counter ------------------- *)
\* the live attempt counters of a user's live request, in a given database
CountersIn(db, f, userId) ==
  UNION {getByRequestId(db, f, r.id) : r \in getByUserId(db, f, userId)}

\* C11: a send that finds its counter at MAX_ATTEMPT_COUNT with more than
\* ONE_DAY_IN_SEC gone since countIncreaseLastUpdateDate succeeds and leaves
\* the counter at count 0, stamped with the time of the call.
C11_ResetToZero ==
  [][SendReachedLimiter =>
       LET f == FlowOf(last'.op)
           u == last'.userId
       IN  (\E c \in CountersOf(f, u) :
              /\ c.count = MAX_ATTEMPT_COUNT
              /\ now - c.countIncreaseLastUpdateDate > ONE_DAY_IN_SEC)
             => /\ last'.err = "none"
                /\ CountersIn(DB', f, u) # {}
                /\ \A c \in CountersIn(DB', f, u) :
                     c.count = 0 /\ c.countIncreaseLastUpdateDate = now]_vars

\* an account-verification send has just reset its counter
C11_Witness ==
  /\ last.op = "accountVerifySend"
  /\ last.err = "none"
  /\ sends["account_verification"][last.userId] = MAX_ATTEMPT_COUNT + 1
  /\ \E c \in CountersOf("account_verification", last.userId) :
       c.count = 0 /\ c.countIncreaseLastUpdateDate = now

\* C12: every attempt counter has 0 <= count <= MAX_ATTEMPT_COUNT; a step
\* changes a count only by adding 1 or by resetting it to 0, and it resets
\* only a count that stands at MAX_ATTEMPT_COUNT more than ONE_DAY_IN_SEC
\* after its last stamp.
C12_CountBoundedStepwise ==
  [][\A f \in Flows : \A d \in counters'[f] :
       /\ 0 <= d.count /\ d.count <= MAX_ATTEMPT_COUNT
       /\ \A c \in counters[f] :
            (c.requestId = d.requestId /\ c.count # d.count) =>
              \/ d.count = c.count + 1
              \/ /\ d.count = 0
                 /\ c.count = MAX_ATTEMPT_COUNT
                 /\ now - c.countIncreaseLastUpdateDate > ONE_DAY_IN_SEC]_vars

\* a counter has gone up to the cap, been reset and gone up again
C12_Witness ==
  \E u \in UserIds :
    /\ sends["reset_password"][u] = MAX_ATTEMPT_COUNT + 2
    /\ \E c \in CountersOf("reset_password", u) : c.count = 1

(* ---------------------------- the three limiters side by side --------- *)
\* The limiters of the three send handlers, driven by the same send times
\* from the same counters: every send is put to all three, each on the
\* counter table of its own flow.
MaxLimiterTime == 2 * (ONE_DAY_IN_SEC + 1)

\* the counters a request may have when the sends begin
StartCounters ==
  {{}} \cup {{[requestId |-> 1, count |-> k, countIncreaseLastUpdateDate |-> 0,
               deletedAt |-> Null]} : k \in 0..MAX_ATTEMPT_COUNT}

InitLimiter ==
  /\ now = 0
  /\ encryptionActive = FALSE
  /\ users = UserIds
  /\ identity = [u \in UserIds |-> SettledIdentity]
  /\ refreshTokens = {}
  /\ nextJti = 1
  /\ issued = {}
  /\ mails = {}
  /\ consumed = {}
  /\ last = NoCall
  /\ requests = [f \in Flows |-> {}]
  /\ \E S \in StartCounters : counters = [f \in Flows |-> S]
  /\ nextId = [f \in Flows |-> 1]
  /\ sends = [f \in Flows |-> [u \in UserIds |-> 0]]
  /\ inflight = [p \in Handlers |-> Idle]
  /\ mailed = {}

\* what the limiter of each flow answers for a request at the current time
LimiterOf(f, requestId) ==
  IF f = "account_verification" THEN accVerifyAttemptCount(DB, requestId, now)
  ELSE IF f = "recover_password" THEN recoverPasswordAttemptCount(DB, requestId, now)
  ELSE resetPasswordAttemptCount(DB, requestId, now)

LimiterSend(requestId) ==
  /\ counters' = [f \in Flows |-> LimiterOf(f, requestId).db.counters[f]]
  /\ last' = [op |-> "send", userId |-> requestId, jti |-> 0, sig |-> FALSE,
              err |-> LimiterOf("recover_password", requestId).err]
  /\ UNCHANGED <<now, encryptionActive, users, identity, refreshTokens, nextJti,
                 issued, mails, consumed, requests, flowVars>>

TickLimiter ==
  /\ now < MaxLimiterTime
  /\ now' = now + 1
  /\ UNCHANGED <<encryptionActive, users, identity, refreshTokens, nextJti, issued,
                 mails, consumed, last, requests, counters, flowVars>>

NextLimiter ==
  \/ \E requestId \in UserIds : LimiterSend(requestId)
  \/ TickLimiter

SpecLimiter == InitLimiter /\ [][NextLimiter]_vars

\* C13: from the same counters and the same send times the three limiters
\* have kept the same counters, and the next send gets the same outcome
\* (success or WAIT_FOR_ANOTHER_DAY) and the same counter from each of them.
C13_LimitersAgree ==
  \A f, g \in Flows :
    /\ counters[f] = counters[g]
    /\ \A requestId \in UserIds :
         /\ LimiterOf(f, requestId).err = LimiterOf(g, requestId).err
         /\ LimiterOf(f, requestId).db.counters[f] =
              LimiterOf(g, requestId).db.counters[g]

\* one request has just been refused by all three while the counter of
\* another has been reset in all three
C13_Witness ==
  /\ last.err = "WAIT_FOR_ANOTHER_DAY"
  /\ \A f \in Flows :
       /\ \E c \in counters[f] : c.requestId = last.userId /\ c.count = MAX_ATTEMPT_COUNT
       /\ \E c \in counters[f] : c.requestId # last.userId /\ c.count = 0

(* ---------------------------- send and confirm as a state machine ----- *)
\* successful sends in one behaviour of send and confirm
MaxConfirmSends == 3

\* a token no mail carried: its jti was never drawn
StrangerToken(f) ==
  [kind |-> f, userId |-> 1, jti |-> <<f, 1, 0>>, iat |-> 0,
   exp |-> REQUEST_TIMEOUT_IN_SEC, sig |-> FALSE]

\* what a client can put into the confirm link of a flow: the tokens the
\* flow's mails carried, the same claims under a signature that does not
\* verify, and a token of its own making
PresentableSecurity(f) ==
  LET carried == {w \in mailed : w.kind = f}
  IN  carried \cup {[w EXCEPT !.sig = FALSE] : w \in carried} \cup {StrangerToken(f)}

ConfirmOps == {"resetPasswordConfirm", "recoverPasswordConfirm", "accountVerificationConfirm"}

\* a confirm call ends
FinishConfirm(op, token, r) ==
  /\ Commit(r.db)
  /\ mails' = r.mails
  /\ last' = [op |-> op, userId |-> token.userId, jti |-> token.jti, sig |-> token.sig,
              err |-> r.err, exception |-> r.exception, text |-> r.text, token |-> token]
  /\ UNCHANGED <<now, encryptionActive, nextJti, issued, consumed, flowVars>>

ResetPasswordConfirm(token) ==
  FinishConfirm("resetPasswordConfirm", token, resetPasswordConfirm(DB, token, now))

RecoverPasswordConfirm(token) ==
  FinishConfirm("recoverPasswordConfirm", token, recoverPasswordConfirm(DB, token, now))

AccountVerificationConfirm(token) ==
  FinishConfirm("accountVerificationConfirm", token, accountVerificationConfirm(DB, token, now))

NextConfirm ==
  \/ /\ TotalSends < MaxConfirmSends
     /\ \/ \E e \in UserIds, pw \in TempPasswords : RecoverPasswordSend(e, pw)
        \/ \E u \in UserIds : ResetPasswordSend(u, "secret", "fresh")
        \/ \E e \in UserIds : AccountVerifySend(e)
  \/ \E token \in PresentableSecurity("reset_password") : ResetPasswordConfirm(token)
  \/ \E token \in PresentableSecurity("recover_password") : RecoverPasswordConfirm(token)
  \/ \E token \in PresentableSecurity("account_verification") :
       AccountVerificationConfirm(token)
  \/ TickFlow

SpecConfirm == InitFlow /\ [][NextConfirm]_vars

(* ---------------------------- requests and their confirmation --------- *)
FlowOfConfirm(op) ==
  IF op = "recoverPasswordConfirm" THEN "recover_password"
  ELSE IF op = "resetPasswordConfirm" THEN "reset_password"
  ELSE "account_verification"

\* the rows of a user in a flow's request table, soft-deleted or not
RequestsOf(f, userId) == {r \in requests[f] : r.userId = userId}

\* a step in which a confirm call ends
ConfirmEnds == now' = now /\ last'.op \in ConfirmOps

C15_StaleTokenInvalid ==
  (/\ last.op \in ConfirmOps
   /\ last.token \in mailed
   /\ \A r \in RequestsOf(FlowOfConfirm(last.op), last.userId) : r.deletedAt = Null
   /\ \E r \in RequestsOf(FlowOfConfirm(last.op), last.userId) :
        r.jti # last.token.jti)
    => last.err \in {"RECOVER_PASSWORD_REQUEST_INVALID", "RESET_PASSWORD_REQUEST_INVALID",
                     "ACCOUNT_VERIFICATION_REQUEST_INVALID"}

\* C17: a confirm call that presents the jti of a soft-deleted request no
\* more than ONE_DAY_IN_SEC after the stamp of its attempt counter reports
\* success and leaves users, requests and counters as they were.
C17_ReplayInsideWindow ==
  [][(/\ ConfirmEnds
      /\ \E r \in requests[FlowOfConfirm(last'.op)] :
           /\ r.jti = last'.token.jti
           /\ r.deletedAt # Null
           /\ \E c \in getByRequestIdIncludeDeleted(DB, FlowOfConfirm(last'.op), r.id) :
                now - c.countIncreaseLastUpdateDate <= ONE_DAY_IN_SEC)
       => /\ last'.err = "none"
          /\ identity' = identity
          /\ requests' = requests
          /\ counters' = counters]_vars

\* a reset-password token has been confirmed a second time, on the last
\* step of the window
C17_Witness ==
  /\ last.op = "resetPasswordConfirm"
  /\ last.text = "Reset password already requested"
  /\ \E r \in requests["reset_password"] :
       /\ r.jti = last.token.jti
       /\ \E c \in getByRequestIdIncludeDeleted(DB, "reset_password", r.id) :
            now - c.countIncreaseLastUpdateDate = ONE_DAY_IN_SEC

\* C18: after a confirm call that failed with <Flow>_TOKEN_REUSE, a user
\* with strictMode is locked.
C18_ReplayLocksStrict ==
  (/\ last.op \in ConfirmOps
   /\ last.err \in {"RECOVER_PASSWORD_TOKEN_REUSE", "RESET_PASSWORD_TOKEN_REUSE",
                    "ACCOUNT_VERIFICATION_TOKEN_REUSE"}
   /\ identity[last.userId].strictMode)
    => identity[last.userId].isLocked

\* C19: a confirm call that found no request row for the presented jti has
\* failed with a NotFoundException.
C19_NotFoundIsNotFound ==
  (/\ last.op \in ConfirmOps
   /\ last.err \in {"RECOVER_PASSWORD_REQUEST_NOT_FOUND", "RESET_PASSWORD_REQUEST_NOT_FOUND",
                    "ACCOUNT_VERIFICATION_REQUEST_NOT_FOUND"})
    => last.exception = "NotFoundException"

\* C20: a confirm call that presents the jti of a live request with a token
\* that is not the stored securityToken fails with a ForbiddenException of
\* <Flow>_REQUEST_INVALID and leaves requests and users as they were.
C20_SubstitutedTokenInvalid ==
  [][(/\ ConfirmEnds
      /\ \E r \in requests[FlowOfConfirm(last'.op)] :
           /\ r.jti = last'.token.jti
           /\ r.deletedAt = Null
           /\ r.securityToken # last'.token)
       => /\ last'.err \in {"RECOVER_PASSWORD_REQUEST_INVALID",
                            "RESET_PASSWORD_REQUEST_INVALID",
                            "ACCOUNT_VERIFICATION_REQUEST_INVALID"}
          /\ last'.exception = "ForbiddenException"
          /\ requests' = requests
          /\ identity' = identity]_vars

\* a recover-password confirm has been refused for a token that carries the
\* jti of the live request under another signature
C20_Witness ==
  /\ last.op = "recoverPasswordConfirm"
  /\ last.err = "RECOVER_PASSWORD_REQUEST_INVALID"
  /\ \E r \in getByUserId(DB, "recover_password", last.userId) :
       r.jti = last.token.jti /\ r.securityToken # last.token

(* ---------------------------- recoverPasswordSend calls side by side -- *)
\* A recoverPasswordSend call runs in a transaction of its own (read
\* committed): a read sees what is committed when it runs, a write stays
\* private until the commit, and the UPDATE of a row holds that row's lock
\* until the transaction ends, so a second UPDATE of the row waits for it.
MaxConcSends == 3

Asleep ==
  [pc |-> "idle", email |-> 0, newPasswordText |-> "", jti |-> <<>>, found |-> {},
   counted |-> {}, before |-> -1, sent |-> 0, overlaps |-> FALSE, err |-> "none"]

InitSendConc ==
  /\ now = 0
  /\ encryptionActive = FALSE
  /\ users = UserIds
  /\ identity \in {[u \in UserIds |-> IF u = 1 THEN r ELSE FreshIdentity] :
                     r \in IdentityRows}
  /\ refreshTokens = {}
  /\ nextJti = 1
  /\ issued = {}
  /\ mails = {}
  /\ consumed = {}
  /\ last = NoCall
  /\ requests = [f \in Flows |-> {}]
  /\ counters = [f \in Flows |-> {}]
  /\ nextId = [f \in Flows |-> 1]
  /\ sends = [f \in Flows |-> [u \in UserIds |-> 0]]
  /\ inflight = [p \in Handlers |-> Asleep]
  /\ mailed = {}

\* the handlers that hold the lock of a request row: they have written it
\* and have not yet committed
rowLockFree_noLock(p, id) == TRUE

rowLockFree(p, id) ==
  \A q \in Handlers \ {p} :
    ~(/\ inflight[q].pc \in {"upserted", "counted"}
      /\ \E r \in inflight[q].found : r.id = id)

\* the unique index of the request table: one live row for a user; the
\* insert of a second one fails
userIdFree(db, f, userId) == getByUserId(db, f, userId) = {}

\* lines 347-363: the user, the token, the user's live request
SendRead(p, email, newPasswordText) ==
  LET v == IF email \notin users THEN "USER_NOT_FOUND"
           ELSE validateUser(DB, email, TRUE, FALSE)
      found == getByUserId(DB, "recover_password", email)
      live == UNION {getByRequestId(DB, "recover_password", r.id) : r \in found}
  IN  /\ inflight[p].pc = "idle"
      /\ nextJti <= MaxConcSends
      /\ nextJti' = nextJti + 1
      /\ inflight' = [inflight EXCEPT ![p] =
           IF v # "none" THEN [Asleep EXCEPT !.pc = "done", !.email = email, !.err = v]
           ELSE [Asleep EXCEPT !.pc = "read", !.email = email,
                   !.newPasswordText = newPasswordText,
                   !.jti = <<"recover_password", email, nextJti>>,
                   !.found = found,
                   !.before = IF live = {} THEN -1 ELSE (CHOOSE c \in live : TRUE).count,
                   !.sent = sends["recover_password"][email],
                   !.overlaps = \E q \in Handlers \ {p} :
                                    /\ inflight[q].pc \in {"read", "upserted", "counted"}
                                    /\ inflight[q].email = email]]
      /\ UNCHANGED <<now, encryptionActive, users, identity, refreshTokens, issued, mails,
                     consumed, last, requests, counters, nextId, sends, mailed>>

\* lines 365-385: the upsert; an update waits for the row's lock
SendUpsert(p) ==
  /\ inflight[p].pc = "read"
  /\ \A r \in inflight[p].found : rowLockFree(p, r.id)
  /\ inflight' = [inflight EXCEPT ![p].pc = "upserted"]
  /\ UNCHANGED <<now, encryptionActive, users, identity, refreshTokens, nextJti, issued,
                 mails, consumed, last, requests, counters, nextId, sends, mailed>>

\* lines 387-391: read the attempt counter of the request
SendCount(p) ==
  /\ inflight[p].pc = "upserted"
  /\ inflight' = [inflight EXCEPT ![p].pc = "counted",
                    ![p].counted = UNION {getByRequestId(DB, "recover_password", r.id) :
                                            r \in inflight[p].found}]
  /\ UNCHANGED <<now, encryptionActive, users, identity, refreshTokens, nextJti, issued,
                 mails, consumed, last, requests, counters, nextId, sends, mailed>>

\* lines 393-439 and the end of the transaction: the limiter decides on the
\* counter that was read; the writes of the call reach the database
SendFinish(p) ==
  LET c == inflight[p]
      f == "recover_password"
      userId == c.email
      securityToken == genRecoverPasswordToken(userId, c.jti, now)
      data == [securityToken |-> securityToken, newPassword |-> Hash(c.newPasswordText),
               jti |-> c.jti]
      id == IF c.found # {} THEN (CHOOSE r \in c.found : TRUE).id ELSE nextId[f]
      db2 == IF c.found # {}
               THEN updateById(DB, f, id, data)
               ELSE create(DB, f, id, [userId |-> userId] @@ data)
      view == [db2 EXCEPT !.counters[f] = {x \in @ : x.requestId # id} \cup c.counted]
      a == recoverPasswordAttemptCount(view, id, now)
      r == transaction_handle(DB,
             IF c.found = {} /\ ~userIdFree(DB, f, userId)
               THEN Throw(DB, "UNIQUE_CONSTRAINT_FAILED", {})
             ELSE IF a.err # "none" THEN a
             ELSE Sent(a.db, [kind |-> f, to |-> userId, token |-> securityToken,
                              text |-> c.newPasswordText]))
  IN  /\ c.pc = "counted"
      /\ Commit(r.db)
      /\ mails' = r.mails
      /\ mailed' = mailed \cup {m.token : m \in r.mails}
      /\ nextId' = IF r.err = "none" /\ c.found = {} THEN [nextId EXCEPT ![f] = @ + 1]
                   ELSE nextId
      /\ sends' = IF r.err = "none" THEN [sends EXCEPT ![f][userId] = @ + 1] ELSE sends
      /\ last' = [op |-> "recoverPasswordSend", userId |-> userId, jti |-> 0,
                  sig |-> FALSE, err |-> r.err]
      /\ inflight' = [inflight EXCEPT ![p].pc = "done", ![p].err = r.err]
      /\ UNCHANGED <<now, encryptionActive, nextJti, issued, consumed>>

\* the response has gone out; the handler takes the next request
SendReturn(p) ==
  /\ inflight[p].pc = "done"
  /\ inflight' = [inflight EXCEPT ![p] = Asleep]
  /\ UNCHANGED <<now, encryptionActive, users, identity, refreshTokens, nextJti, issued,
                 mails, consumed, last, requests, counters, nextId, sends, mailed>>

NextSendConc ==
  \/ \E p \in Handlers, e \in UserIds, pw \in TempPasswords : SendRead(p, e, pw)
  \/ \E p \in Handlers : SendUpsert(p)
  \/ \E p \in Handlers : SendCount(p)
  \/ \E p \in Handlers : SendFinish(p)
  \/ \E p \in Handlers : SendReturn(p)

SpecSendConc == InitSendConc /\ [][NextSendConc]_vars

\* C16: when two recoverPasswordSend calls for one user ran side by side
\* from a counter at n, both succeeded by an increment and no other send
\* for the user succeeded meanwhile, the counter stands at n + 2.
C16_NoLostIncrement ==
  \A p, q \in Handlers :
    (/\ p # q
     /\ inflight[p].pc = "done" /\ inflight[q].pc = "done"
     /\ inflight[p].err = "none" /\ inflight[q].err = "none"
     /\ inflight[p].email = inflight[q].email
     /\ inflight[p].overlaps
     /\ inflight[p].before = inflight[q].before
     /\ inflight[p].sent = inflight[q].sent
     /\ sends["recover_password"][inflight[p].email] = inflight[p].sent + 2
     /\ inflight[p].before >= 0
     /\ inflight[p].before + 2 <= MAX_ATTEMPT_COUNT)
      => \A c \in CountersOf("recover_password", inflight[p].email) :
           c.count = inflight[p].before + 2

\* two calls that both read the user's request before either wrote it have
\* both succeeded, and the counter went from 1 to 3
C16_Witness ==
  /\ \A p \in Handlers :
       /\ inflight[p].pc = "done" /\ inflight[p].err = "none"
       /\ inflight[p].email = 1 /\ inflight[p].before = 1
  /\ \E p \in Handlers : inflight[p].overlaps
  /\ \E c \in CountersOf("recover_password", 1) : c.count = 3

(* ---------------------------- what a confirm call changes ------------- *)
SuccessTexts ==
  {"Reset password was successsfull", "Recover password was successsfull",
   "Account verify was successsfull"}

\* the request row a confirm call found by the jti of its token
RequestOfToken(op, token) ==
  {r \in requests[FlowOfConfirm(op)] : r.jti = token.jti}

\* C21: a confirm call that reports success has set the password to the
\* request's newPassword (recover, reset) or made the account verified and
\* unlocked (verify), and has soft-deleted the request and its attempt
\* counter; any other end of a confirm call leaves users, requests and
\* counters as they were.
C21_ConfirmAppliesAll ==
  [][ConfirmEnds =>
       IF last'.text \in SuccessTexts
         THEN \A r \in RequestOfToken(last'.op, last'.token) :
                /\ IF last'.op = "accountVerificationConfirm"
                     THEN /\ identity'[last'.userId].isAccountVerified
                          /\ ~identity'[last'.userId].isLocked
                     ELSE identity'[last'.userId].password = r.newPassword
                /\ [r EXCEPT !.deletedAt = now] \in requests'[FlowOfConfirm(last'.op)]
                /\ \E c \in counters'[FlowOfConfirm(last'.op)] : c.requestId = r.id
                /\ \A c \in counters'[FlowOfConfirm(last'.op)] :
                     c.requestId = r.id => c.deletedAt # Null
         ELSE /\ identity' = identity
              /\ requests' = requests
              /\ counters' = counters]_vars

\* an account has been verified: the request and the counter are
\* soft-deleted, the account is verified
C21_Witness ==
  /\ last.op = "accountVerificationConfirm"
  /\ last.text = "Account verify was successsfull"
  /\ identity[last.userId].isAccountVerified
  /\ \E r \in RequestsOf("account_verification", last.userId) :
       /\ r.jti = last.token.jti /\ r.deletedAt # Null
       /\ \E c \in getByRequestIdIncludeDeleted(DB, "account_verification", r.id) :
            c.deletedAt # Null

\* C22: every soft-deleted request has an attempt counter row, soft-deleted
\* or not, and no confirm call has ended in the InternalServerError branch.
C22_DeletedRequestHasCounter ==
  /\ \A f \in Flows : \A r \in requests[f] :
       r.deletedAt # Null => getByRequestIdIncludeDeleted(DB, f, r.id) # {}
  /\ last.err # "This should not happen"

\* a confirmed recover-password token has been presented again after the
\* window: the replay branch found the counter of the soft-deleted request
C22_Witness ==
  /\ last.op = "recoverPasswordConfirm"
  /\ last.err = "RECOVER_PASSWORD_TOKEN_REUSE"
  /\ \E r \in requests["recover_password"] :
       /\ r.jti = last.token.jti /\ r.deletedAt # Null
       /\ getByRequestIdIncludeDeleted(DB, "recover_password", r.id) # {}

(* ---------------------------- sign-up ---------------------------------- *)
\* UserService.existsByEmail
existsByEmail(db, email) == email \in db.users

\* UserService.create: the id of the row is the key the email stands for
createUser(db, email) == [db EXCEPT !.users = @ \cup {email}]

\* UserIdentityService.create: the columns other than the password take
\* their defaults
createUserIdentity(db, userId, password) ==
  [db EXCEPT !.identity =
     (userId :> [password |-> password, isAccountVerified |-> FALSE,
                 isLocked |-> FALSE, strictMode |-> FALSE]) @@ @]

\* the awaited call of signUpWithToken that rejects, if any
Faults == {"none", "identity", "send", "issue"}

\* signUpWithToken, the callback handed to transaction.handle
signUpWithTokenBody(db, email, password, platform, enc, t, jti, sendJti, id, fault) ==
  IF existsByEmail(db, email) THEN Throw(db, "USER_EMAIL_EXISTS", {})
  ELSE
    LET hashedPassword == Hash(password)
        db1 == createUser(db, email)
        db2 == createUserIdentity(db1, email, hashedPassword)
        s == pureAccountVerifySend(db2, email, t, sendJti, id)
        g == genTokensAndSendResponse(s.db, email, FALSE, platform, enc, t, jti)
    IN  IF fault = "identity" THEN Throw(db1, "InternalError", {})
        ELSE IF fault = "send" THEN Throw(s.db, "InternalError", {})
        ELSE IF s.err # "none" THEN s
        ELSE IF fault = "issue" THEN Throw(g.db, "InternalError", s.mails)
        ELSE [g EXCEPT !.mails = s.mails]

\* the callback run without a transaction around it
signUpWithToken_noTransaction(db, email, password, platform, enc, t, jti, sendJti, id, fault) ==
  signUpWithTokenBody(db, email, password, platform, enc, t, jti, sendJti, id, fault)

signUpWithToken(db, email, password, platform, enc, t, jti, sendJti, id, fault) ==
  transaction_handle(db,
    signUpWithTokenBody(db, email, password, platform, enc, t, jti, sendJti, id, fault))

(* ---------------------------- accounts as a state machine -------------- *)
\* no account exists yet
InitAccount ==
  /\ now = 0
  /\ encryptionActive = FALSE
  /\ users = {}
  /\ identity = [u \in {} |-> FreshIdentity]
  /\ refreshTokens = {}
  /\ nextJti = 1
  /\ issued = {}
  /\ mails = {}
  /\ consumed = {}
  /\ last = NoCall
  /\ requests = [f \in Flows |-> {}]
  /\ counters = [f \in Flows |-> {}]
  /\ nextId = [f \in Flows |-> 1]
  /\ sends = [f \in Flows |-> [u \in UserIds |-> 0]]
  /\ inflight = [p \in Handlers |-> Idle]
  /\ mailed = {}

\* a call that may issue a token pair ends
FinishAccount(op, userId, password, platform, fault, r) ==
  /\ r.err = "none" => nextJti <= MaxJti
  /\ Commit(r.db)
  /\ Deliver(r)
  /\ last' = [op |-> op, userId |-> userId, password |-> password, platform |-> platform,
              fault |-> fault, err |-> r.err, resp |-> r.resp, token |-> r.token,
              created |-> r.db.refreshTokens \ refreshTokens]

SignUpWithToken(email, password, platform, fault) ==
  LET f == "account_verification"
      r == signUpWithToken(DB, email, password, platform, encryptionActive, now, nextJti,
                           uuid(f, email), nextId[f], fault)
  IN  /\ FinishAccount("signUp", email, password, platform, fault, r)
      /\ mailed' = mailed \cup {m.token : m \in r.mails}
      /\ nextId' = IF r.db.requests[f] # requests[f] THEN [nextId EXCEPT ![f] = @ + 1]
                   ELSE nextId
      /\ sends' = IF r.err = "none" THEN [sends EXCEPT ![f][email] = @ + 1] ELSE sends
      /\ UNCHANGED <<now, encryptionActive, consumed, inflight>>

SignInWithToken(email, password, platform) ==
  /\ FinishAccount("signIn", email, password, platform, "none",
       signInWithToken(DB, email, password, platform, encryptionActive, now, nextJti))
  /\ UNCHANGED <<now, encryptionActive, consumed, flowVars>>

RefreshTokenOf(w, platform) ==
  LET r == refreshToken(DB, w, platform, encryptionActive, now, nextJti)
  IN  /\ FinishAccount("refreshToken", Decoded(w).userId, "", platform, "none", r)
      /\ consumed' = IF r.err = "none" THEN consumed \cup {Decoded(w).jti} ELSE consumed
      /\ UNCHANGED <<now, encryptionActive, flowVars>>

NextAccount ==
  \/ \E e \in UserIds, pf \in Platforms : SignUpWithToken(e, "secret", pf, "none")
  \/ \E e \in UserIds, fault \in Faults : SignUpWithToken(e, "secret", "web", fault)
  \/ \E e \in TokenUserIds, pw \in {"secret", "wrong"}, pf \in Platforms :
       SignInWithToken(e, pw, pf)
  \/ \E w \in Presentable : RefreshTokenOf(w, "web")
  \/ \E token \in PresentableSecurity("account_verification") :
       AccountVerificationConfirm(token)

SpecAccount == InitAccount /\ [][NextAccount]_vars

\* C23: a signInWithToken call that follows a successful sign-up, for the
\* same email and with the password of the sign-up, succeeds and reports
\* the account as not verified.
C23_SignInAfterSignUp ==
  [][(/\ last.op = "signUp" /\ last.err = "none"
      /\ last'.op = "signIn"
      /\ last'.userId = last.userId
      /\ last'.password = last.password)
       => /\ last'.err = "none"
          /\ ~last'.resp.isAccountVerified]_vars

\* C24: a signUpWithToken call that ends with an error leaves the user,
\* identity, request, attempt-counter and refresh-token tables as they were.
C24_SignUpAllOrNothing ==
  [][(last'.op = "signUp" /\ last'.err # "none")
       => /\ users' = users
          /\ identity' = identity
          /\ requests' = requests
          /\ counters' = counters
          /\ refreshTokens' = refreshTokens]_vars

\* a sign-up has failed at the token issuance, after the user, the identity,
\* the request and its counter were written and the mail was handed over:
\* nothing of it is in the tables
C24_Witness ==
  /\ last.op = "signUp"
  /\ last.fault = "issue"
  /\ last.err = "InternalError"
  /\ mails # {}
  /\ last.userId \notin users
  /\ requests["account_verification"] = {}
  /\ counters["account_verification"] = {}
  /\ refreshTokens = {}

(* ---------------------------- the alert mail fails --------------------- *)
\* AuthenticationMailService.sendReuse returns a promise; when the dispatch
\* fails the promise rejects.  In the strictMode branch the handlers await
\* it in Promise.all next to updateIsLockedById, so its rejection is what
\* the await throws, before the throw statement of the branch is reached;
\* in the other branch the promise is not awaited.
awaitSendReuse(r, mailUp) ==
  IF ~mailUp /\ \E m \in r.mails : m.kind = "reuse" /\ m.locked
    THEN [r EXCEPT !.err = "MailDispatchError"]
    ELSE r

RefreshTokenAlert(w, platform, mailUp) ==
  LET r0 == refreshToken(DB, w, platform, encryptionActive, now, nextJti)
      r == awaitSendReuse(r0, mailUp)
      claims == Decoded(w)
  IN  /\ r.err = "none" => nextJti <= MaxJti
      /\ Commit(r.db)
      /\ Deliver(r)
      /\ consumed' = IF r.err = "none" THEN consumed \cup {claims.jti} ELSE consumed
      /\ last' = [op |-> "refreshToken", userId |-> claims.userId, jti |-> claims.jti,
                  sig |-> claims.sig, err |-> r.err, primary |-> r0.err, mailUp |-> mailUp]
      /\ UNCHANGED <<now, encryptionActive, flowVars>>

NextAlert ==
  \/ \E e \in UserIds, pf \in Platforms : SignIn(e, "secret", pf)
  \/ \E w \in Presentable, mailUp \in BOOLEAN : RefreshTokenAlert(w, "web", mailUp)
  \/ \E w \in issued : SignOut(w, "web")

SpecAlert == Init /\ [][NextAlert]_vars

\* C25: a refreshToken call that detected reuse ends with
\* REFRESH_TOKEN_REUSE, whether or not the alert mail could be dispatched.
C25_PrimaryErrorSurvives ==
  (last.op = "refreshToken" /\ last.primary = "REFRESH_TOKEN_REUSE")
    => last.err = "REFRESH_TOKEN_REUSE"

\* C26: a signInWithToken call for an email that has no user, or for a
\* user's email with a password that does not match, ends with
\* EMAIL_OR_PASSWORD_INVALID and creates no refresh-token record.
C26_SignInHidesCause ==
  (/\ last.op = "signIn"
   /\ \/ last.userId \notin users
      \/ ~compare(last.password, identity[last.userId].password))
    => /\ last.err = "EMAIL_OR_PASSWORD_INVALID"
       /\ last.created = {}

(* ---------------------------- encrypted transport --------------------- *)
\* the ledger with ENABLE_SESSION_ACCESS_JWT_ENCRYPTION set
InitSealed ==
  /\ now = 0
  /\ encryptionActive = TRUE
  /\ users = UserIds
  /\ identity \in {[u \in UserIds |-> IF u = 1 THEN r ELSE SettledIdentity] :
                     r \in IdentityRows}
  /\ refreshTokens = {}
  /\ nextJti = 1
  /\ issued = {}
  /\ mails = {}
  /\ consumed = {}
  /\ last = NoCall
  /\ requests = [f \in Flows |-> {}]
  /\ counters = [f \in Flows |-> {}]
  /\ nextId = [f \in Flows |-> 1]
  /\ sends = [f \in Flows |-> [u \in UserIds |-> 0]]
  /\ inflight = [p \in Handlers |-> Idle]
  /\ mailed = {}

\* what a client can present where a ciphertext is expected: what it was
\* given, the readable JWT inside it, and the strings of Presentable
PresentableSealed == Presentable \cup {decrypt(w) : w \in issued}

\* a call that presents a refresh token ends; the outcome is set against
\* that of the same call with no token
FinishSealed(op, w, r, none) ==
  /\ r.err = "none" => nextJti <= MaxJti
  /\ Commit(r.db)
  /\ Deliver(r)
  /\ last' = [op |-> op, userId |-> Decoded(w).userId, jti |-> Decoded(w).jti,
              sig |-> Decoded(w).sig, err |-> r.err, wire |-> w,
              asNoToken |-> r = none, kept |-> r.db.refreshTokens = refreshTokens]

RefreshTokenSealed(w, platform) ==
  /\ FinishSealed("refreshToken", w,
       refreshToken(DB, w, platform, encryptionActive, now, nextJti),
       refreshToken(DB, Absent, platform, encryptionActive, now, nextJti))
  /\ consumed' = IF last'.err = "none" THEN consumed \cup {Decoded(w).jti} ELSE consumed
  /\ UNCHANGED <<now, encryptionActive, flowVars>>

SignOutSealed(w, platform) ==
  /\ FinishSealed("signOut", w,
       signOut(DB, w, platform, encryptionActive),
       signOut(DB, Absent, platform, encryptionActive))
  /\ UNCHANGED <<now, encryptionActive, consumed, flowVars>>

NextSealed ==
  \/ \E e \in UserIds, pf \in Platforms : SignIn(e, "secret", pf)
  \/ \E w \in PresentableSealed, pf \in Platforms : RefreshTokenSealed(w, pf)
  \/ \E w \in PresentableSealed, pf \in Platforms : SignOutSealed(w, pf)
  \/ Tick

SpecSealed == InitSealed /\ [][NextSealed]_vars

NextRevoke ==
  \/ SignIn(1, "secret", "web")
  \/ \E p \in Handlers, w \in issued : RtLookup(p, w, "web")
  \/ \E p \in Handlers : RtFinish(p)
  \/ \E p \in Handlers : RtReturn(p)
  \/ \E w \in issued : SignOut(w, "web")

SpecRevoke == Init /\ [][NextRevoke]_vars

C29_OneRecordPerSuccess ==
  last.op \in {"signUp", "signIn", "refreshToken"}
    => IF last.resp.kind \in {"web", "mobile"}
         THEN last.created =
                {r \in refreshTokens :
                   r.userId = last.userId /\ r.jti = getRefreshTokenPayload(last.token).jti}
              /\ Cardinality(last.created) = 1
         ELSE last.created = {}

(* ---------------------------- what a send requires -------------------- *)
\* C30: a recoverPasswordSend or resetPasswordSend call for a user whose
\* account is not verified, and an accountVerifySend call for a user whose
\* account is verified, fails before the limiter with the error of the
\* account's state (or of an earlier check of the flow) and leaves requests
\* and counters as they were.
C30_SendRequiresState ==
  [][(/\ now' = now
      /\ last'.op \in SendOps
      /\ last'.userId \in users
      /\ IF last'.op = "accountVerifySend"
           THEN identity[last'.userId].isAccountVerified
           ELSE ~identity[last'.userId].isAccountVerified)
       => /\ last'.err \in
               {IF last'.op = "accountVerifySend" THEN "USER_ALREADY_VERIFIED"
                                                   ELSE "USER_NOT_VERIFIED"}
               \cup (IF identity[last'.userId].isLocked THEN {"USER_LOCKED"} ELSE {})
               \cup (IF last'.op = "resetPasswordSend"
                       THEN {"PASSWORD_INVALID", "NEW_PASSWORD_SAME"} ELSE {})
          /\ requests' = requests
          /\ counters' = counters]_vars

\* a verification mail has been asked for an account that is verified,
\* after a recover-password send for it went through
C30_Witness ==
  /\ last.op = "accountVerifySend"
  /\ last.err = "USER_ALREADY_VERIFIED"
  /\ identity[last.userId].isAccountVerified
  /\ RequestsOf("account_verification", last.userId) = {}
  /\ RequestsOf("recover_password", last.userId) # {}

(* ---------------------------- the flow's mail fails ----------------- *)
MaxMailSends == 2

\* the statement that ends a send callback with every mail awaited
handOver_awaited(pre, r, mailUp) ==
  IF ~mailUp /\ r.mails # {}
    THEN [r EXCEPT !.err = "MailDispatchError", !.db = pre]
    ELSE r

\* the statement that ends a send callback,
\* this.authenticationMailService.send<Flow>(...): the promise it returns is
\* neither awaited nor returned, so the callback has resolved and the
\* transaction has committed whatever becomes of the dispatch
handOver(pre, r, mailUp) == r

\* a send call ends, the mail service up or down: a mail that was not
\* dispatched carries its token to nobody
FinishSendMail(op, f, userId, r0, mailUp) ==
  LET r == handOver(DB, r0, mailUp)
  IN  /\ r0.err = "none" => TotalSends < MaxMailSends
      /\ Commit(r.db)
      /\ mails' = IF mailUp THEN r.mails ELSE {}
      /\ mailed' = IF mailUp THEN mailed \cup {m.token : m \in r.mails} ELSE mailed
      /\ nextId' = IF \E row \in r.db.requests[f] \ requests[f] : row.id = nextId[f]
                     THEN [nextId EXCEPT ![f] = @ + 1] ELSE nextId
      /\ sends' = IF r.err = "none" THEN [sends EXCEPT ![f][userId] = @ + 1] ELSE sends
      /\ last' = [op |-> op, userId |-> userId, jti |-> uuid(f, userId), sig |-> FALSE,
                  err |-> r.err, primary |-> r0.err, mailUp |-> mailUp]
      /\ UNCHANGED <<now, encryptionActive, nextJti, issued, consumed, inflight>>

RecoverPasswordSendMail(email, newPasswordText, mailUp) ==
  FinishSendMail("recoverPasswordSend", "recover_password", email,
                 recoverPasswordSend(DB, email, newPasswordText, now,
                                     uuid("recover_password", email), nextId["recover_password"]),
                 mailUp)

ResetPasswordSendMail(userId, oldPassword, newPassword, mailUp) ==
  FinishSendMail("resetPasswordSend", "reset_password", userId,
                 resetPasswordSend(DB, userId, oldPassword, newPassword, now,
                                   uuid("reset_password", userId), nextId["reset_password"]),
                 mailUp)

AccountVerifySendMail(email, mailUp) ==
  FinishSendMail("accountVerifySend", "account_verification", email,
                 accountVerifySend(DB, email, now, uuid("account_verification", email),
                                   nextId["account_verification"]),
                 mailUp)

\* a confirm call ends, the mail service up or down: the only mail of a
\* confirm handler is sendReuse in the replay branch
FinishConfirmMail(op, token, r0, mailUp) ==
  LET r == awaitSendReuse(r0, mailUp)
  IN  /\ Commit(r.db)
      /\ mails' = IF mailUp THEN r.mails ELSE {}
      /\ last' = [op |-> op, userId |-> token.userId, jti |-> token.jti, sig |-> token.sig,
                  err |-> r.err, primary |-> r0.err, mailUp |-> mailUp]
      /\ UNCHANGED <<now, encryptionActive, nextJti, issued, consumed, flowVars>>

ResetPasswordConfirmMail(token, mailUp) ==
  FinishConfirmMail("resetPasswordConfirm", token, resetPasswordConfirm(DB, token, now), mailUp)

RecoverPasswordConfirmMail(token, mailUp) ==
  FinishConfirmMail("recoverPasswordConfirm", token, recoverPasswordConfirm(DB, token, now), mailUp)

AccountVerificationConfirmMail(token, mailUp) ==
  FinishConfirmMail("accountVerificationConfirm", token,
                    accountVerificationConfirm(DB, token, now), mailUp)

NextMail ==
  \/ \E e \in UserIds, mailUp \in BOOLEAN : RecoverPasswordSendMail(e, "tmpA", mailUp)
  \/ \E u \in UserIds, mailUp \in BOOLEAN : ResetPasswordSendMail(u, "secret", "fresh", mailUp)
  \/ \E e \in UserIds, mailUp \in BOOLEAN : AccountVerifySendMail(e, mailUp)
  \/ \E token \in PresentableSecurity("reset_password"), mailUp \in BOOLEAN :
       ResetPasswordConfirmMail(token, mailUp)
  \/ \E token \in PresentableSecurity("recover_password"), mailUp \in BOOLEAN :
       RecoverPasswordConfirmMail(token, mailUp)
  \/ \E token \in PresentableSecurity("account_verification"), mailUp \in BOOLEAN :
       AccountVerificationConfirmMail(token, mailUp)
  \/ TickFlow

SpecMail == InitFlow /\ [][NextMail]_vars

\* the row a flow's table holds under a jti
RowOfJti(f, jti) == {r \in requests[f] : r.jti = jti}

\* C31: a send call whose transaction callback ran to its end has its
\* request row and the row's attempt counter in the tables, and a confirm
\* call whose callback ran to its end has its request and counter
\* soft-deleted, also when the mail service could not dispatch; the call
\* ends as it would have ended with the mail dispatched.
C31_MailFailureKeepsChanges ==
  /\ (last.op \in SendOps /\ last.primary = "none") =>
       /\ last.err = "none"
       /\ \E r \in RowOfJti(FlowOf(last.op), last.jti) :
            /\ r.deletedAt = Null
            /\ getByRequestId(DB, FlowOf(last.op), r.id) # {}
  /\ (last.op \in ConfirmOps /\ "primary" \in DOMAIN last /\ last.primary = "none"
        /\ RowOfJti(FlowOfConfirm(last.op), last.jti) # {}) =>
       /\ last.err = "none"
       /\ \A r \in RowOfJti(FlowOfConfirm(last.op), last.jti) :
            /\ r.deletedAt # Null
            /\ getByRequestId(DB, FlowOfConfirm(last.op), r.id) = {}

\* a recover send went through while the mail service was down
C31_Witness ==
  /\ last.op = "recoverPasswordSend"
  /\ last.primary = "none"
  /\ ~last.mailUp
  /\ mails = {}
  /\ RowOfJti("recover_password", last.jti) # {}

(* ---------------------------- the response by platform -------------- *)
\* C32: a sign-up, sign-in or refresh call that returns gives a web client
\* the pair in cookies and a body with isAccountVerified and no token, a
\* mobile client a body with the pair and isAccountVerified and no cookie,
\* and a client of any other platform the failure payload with no token in
\* cookie or body.
C32_ResponseByPlatform ==
  (last.op \in {"signUp", "signIn", "refreshToken"} /\ last.err = "none") =>
    IF last.platform = "web"
      THEN /\ last.resp.kind = "web"
           /\ last.resp.cookie = last.token
           /\ last.token.form # "absent"
           /\ last.resp.body = Absent
           /\ last.resp.isAccountVerified = identity[last.userId].isAccountVerified
    ELSE IF last.platform = "mobile"
      THEN /\ last.resp.kind = "mobile"
           /\ last.resp.body = last.token
           /\ last.token.form # "absent"
           /\ last.resp.cookie = Absent
           /\ last.resp.isAccountVerified = identity[last.userId].isAccountVerified
    ELSE /\ last.resp.kind = "failure"
         /\ last.resp.cookie = Absent
         /\ last.resp.body = Absent
         /\ last.token = Absent

\* a verified user signed in from a web client while holding another record
C32_Witness ==
  /\ last.op = "signIn"
  /\ last.platform = "web"
  /\ last.err = "none"
  /\ last.resp.isAccountVerified
  /\ last.resp.cookie.form # "absent"
  /\ Cardinality(refreshTokens) >= 2

(* ---------------------------- a send after a confirm ---------------- *)
\* C33: a send that succeeds for a user who already has a request row of the
\* flow, soft-deleted or not, leaves the user with the same number of rows,
\* none of them soft-deleted, one of them carrying the jti of the send.
C33_SendReusesRow ==
  [][(/\ sends' # sends
      /\ last'.op \in SendOps
      /\ RequestsOf(FlowOf(last'.op), last'.userId) # {})
       => LET f == FlowOf(last'.op)
              before == {r \in requests[f] : r.userId = last'.userId}
              after == {r \in requests'[f] : r.userId = last'.userId}
          IN  /\ Cardinality(after) = Cardinality(before)
              /\ {r.id : r \in after} = {r.id : r \in before}
              /\ \A r \in after : r.deletedAt = Null]_vars

(* ---------------------------- the pending password ------------------ *)
\* the text generated by the n-th recover send (lines 351-359, random), and
\* the new password a user types into the n-th reset send: no two alike
GeneratedTexts == <<"tmp1", "tmp2", "tmp3", "tmp4", "tmp5">>
ChosenPasswords == <<"new1", "new2", "new3", "new4", "new5">>

newPasswordTextOf(f, userId) ==
  IF f = "recover_password" THEN GeneratedTexts[sends[f][userId] + 1]
  ELSE ChosenPasswords[sends[f][userId] + 1]

\* the text of the latest send of a flow that succeeded for a user
LatestText(f, userId) ==
  IF f = "recover_password" THEN GeneratedTexts[sends[f][userId]]
  ELSE ChosenPasswords[sends[f][userId]]

\* the texts of the sends before the latest one
EarlierTexts(f, userId) ==
  {IF f = "recover_password" THEN GeneratedTexts[k] ELSE ChosenPasswords[k] :
     k \in 1..(sends[f][userId] - 1)}

NextPending ==
  \/ /\ TotalSends < MaxConfirmSends
     /\ \/ \E e \in UserIds :
             RecoverPasswordSend(e, newPasswordTextOf("recover_password", e))
        \/ \E u \in UserIds :
             ResetPasswordSend(u, "secret", newPasswordTextOf("reset_password", u))
  \/ \E token \in PresentableSecurity("reset_password") : ResetPasswordConfirm(token)
  \/ \E token \in PresentableSecurity("recover_password") : RecoverPasswordConfirm(token)
  \/ TickFlow

SpecPending == InitFlow /\ [][NextPending]_vars

PasswordFlows == {"recover_password", "reset_password"}

\* C34: a recover or reset confirm that reports success leaves the user's
\* password at the hash of the text of the latest send of that flow that
\* succeeded for the user, and no step of any call changes a user's password
\* to the hash of the text of an earlier send.
C34_ConfirmAppliesLatest ==
  [][/\ (/\ ConfirmEnds
         /\ last'.op \in {"recoverPasswordConfirm", "resetPasswordConfirm"}
         /\ last'.err = "none"
         /\ last'.text \in SuccessTexts)
          => identity'[last'.userId].password =
               Hash(LatestText(FlowOfConfirm(last'.op), last'.userId))
     /\ \A u \in UserIds, f \in PasswordFlows :
          identity'[u].password # identity[u].password
            => identity'[u].password \notin {Hash(x) : x \in EarlierTexts(f, u)}]_vars

\* send, send again, confirm with the token of the second send
C34_Witness ==
  /\ last.op = "recoverPasswordConfirm"
  /\ last.err = "none"
  /\ last.text \in SuccessTexts
  /\ sends["recover_password"][last.userId] = 2
  /\ last.jti = <<"recover_password", last.userId, 2>>
  /\ identity[last.userId].password = Hash(GeneratedTexts[2])

(* ---------------------------- the end of a refusal ------------------ *)
\* time passes, and a user who was refused asks again
SpecLimiterFair ==
  /\ SpecLimiter
  /\ WF_vars(TickLimiter)
  /\ \A requestId \in UserIds : WF_vars(LimiterSend(requestId))

\* the request's counter is at the cap and its day has not ended
RateLimited(f, requestId) ==
  \E c \in getByRequestId(DB, f, requestId) :
    c.count >= MAX_ATTEMPT_COUNT /\ now - c.countIncreaseLastUpdateDate <= ONE_DAY_IN_SEC

\* the request's day ends before the clock of the model does
DayEndsInTime(f, requestId) ==
  \A c \in getByRequestId(DB, f, requestId) :
    c.countIncreaseLastUpdateDate + ONE_DAY_IN_SEC < MaxLimiterTime

\* a send for the request went through once the day had ended: the counter
\* is back at 0 under a later stamp
Readmitted(f, requestId) ==
  \E c \in getByRequestId(DB, f, requestId) : c.count = 0 /\ c.countIncreaseLastUpdateDate > 0

\* C35: a request whose counter is at MAX_ATTEMPT_COUNT within its day is,
\* as time passes and sends keep coming, readmitted: a send succeeds for it
\* and resets the counter.  The sends refused in between do not move the
\* end of the day.
C35_NoPermanentRefusal ==
  \A f \in Flows, requestId \in UserIds :
    (RateLimited(f, requestId) /\ DayEndsInTime(f, requestId)) ~> Readmitted(f, requestId)

\* a send was refused and, later, the request's counter was reset
C35_Witness ==
  /\ now = MaxLimiterTime
  /\ \E c \in getByRequestId(DB, "recover_password", 1) :
       c.count = 0 /\ c.countIncreaseLastUpdateDate = ONE_DAY_IN_SEC + 1

(* ---------------------------- the sends of a window ----------------- *)
\* a window of a request begins with the send that creates its counter or
\* with the send that resets it; `last` keeps, for each request, how its
\* current window began and how many sends it has admitted
NoWindow ==
  [op |-> "none", userId |-> 0, jti |-> 0, sig |-> FALSE, err |-> "none",
   window |-> [id \in UserIds |-> "none"], admitted |-> [id \in UserIds |-> 0]]

InitWindow ==
  /\ now = 0
  /\ encryptionActive = FALSE
  /\ users = UserIds
  /\ identity = [u \in UserIds |-> SettledIdentity]
  /\ refreshTokens = {}
  /\ nextJti = 1
  /\ issued = {}
  /\ mails = {}
  /\ consumed = {}
  /\ last = NoWindow
  /\ requests = [f \in Flows |-> {}]
  /\ counters = [f \in Flows |-> {}]
  /\ nextId = [f \in Flows |-> 1]
  /\ sends = [f \in Flows |-> [u \in UserIds |-> 0]]
  /\ inflight = [p \in Handlers |-> Idle]
  /\ mailed = {}

WindowSend(requestId) ==
  LET r == LimiterOf("recover_password", requestId)
      created == getByRequestId(DB, "recover_password", requestId) = {}
      reset == \E c \in getByRequestId(r.db, "recover_password", requestId) : c.count = 0
  IN  /\ counters' = [f \in Flows |-> LimiterOf(f, requestId).db.counters[f]]
      /\ last' = [op |-> "send", userId |-> requestId, jti |-> 0, sig |-> FALSE,
                  err |-> r.err,
                  window |-> IF r.err # "none" THEN last.window
                             ELSE IF created THEN [last.window EXCEPT ![requestId] = "creation"]
                             ELSE IF reset THEN [last.window EXCEPT ![requestId] = "reset"]
                             ELSE last.window,
                  admitted |-> IF r.err # "none" THEN last.admitted
                               ELSE IF created \/ reset
                                 THEN [last.admitted EXCEPT ![requestId] = 1]
                               ELSE [last.admitted EXCEPT ![requestId] = @ + 1]]
      /\ UNCHANGED <<now, encryptionActive, users, identity, refreshTokens, nextJti,
                     issued, mails, consumed, requests, flowVars>>

NextWindow ==
  \/ \E requestId \in UserIds : WindowSend(requestId)
  \/ TickLimiter

SpecWindow == InitWindow /\ [][NextWindow]_vars

\* the sends a window admits
WindowBudget(window) ==
  IF window = "reset" THEN MAX_ATTEMPT_COUNT + 1 ELSE MAX_ATTEMPT_COUNT

\* C36: a window that began with the reset of the counter admits
\* MAX_ATTEMPT_COUNT + 1 sends, the reset and MAX_ATTEMPT_COUNT after it, and
\* a window that began with the creation of the counter admits
\* MAX_ATTEMPT_COUNT, the creation and the increments up to the cap: no
\* window admits more, and a send is refused only when the window has
\* admitted that many.
C36_WindowBudget ==
  /\ \A id \in UserIds : last.admitted[id] <= WindowBudget(last.window[id])
  /\ last.err = "WAIT_FOR_ANOTHER_DAY"
       => last.admitted[last.userId] = WindowBudget(last.window[last.userId])

\* a send was refused at the end of a window that began with a reset
C36_Witness ==
  /\ last.err = "WAIT_FOR_ANOTHER_DAY"
  /\ last.window[last.userId] = "reset"
  /\ last.admitted[last.userId] = MAX_ATTEMPT_COUNT + 1
  /\ \E id \in UserIds : last.window[id] = "creation" /\ last.admitted[id] = MAX_ATTEMPT_COUNT

(* ---------------------------- the budget after a confirm ------------ *)
\* C37: the send that succeeds for a user right after a confirm of the same
\* flow succeeded for them leaves the user with one live counter, of a
\* request no earlier counter belongs to, with count 1 and the time of the
\* send, whatever the soft-deleted counter had reached; the earlier
\* counters stay as they were.
C37_FreshBudgetAfterConfirm ==
  [][(/\ sends' # sends
      /\ last'.op \in SendOps
      /\ last.op \in ConfirmOps
      /\ last.err = "none"
      /\ last.text \in SuccessTexts
      /\ last.userId = last'.userId
      /\ FlowOfConfirm(last.op) = FlowOf(last'.op))
       => LET f == FlowOf(last'.op)
              live == CountersIn(DB', f, last'.userId)
          IN  /\ Cardinality(live) = 1
              /\ \A c \in live :
                   /\ c.count = 1
                   /\ c.countIncreaseLastUpdateDate = now
                   /\ c.requestId \notin {d.requestId : d \in counters[f]}
              /\ counters[f] \subseteq counters'[f]]_vars

\* send twice, confirm, send: the counter that had reached 2 is soft-deleted
\* and the new one reads 1
C37_Witness ==
  /\ last.op = "recoverPasswordSend"
  /\ last.err = "none"
  /\ sends["recover_password"][last.userId] = 3
  /\ \E c \in counters["recover_password"] : c.deletedAt # Null /\ c.count = 2
  /\ \E c \in CountersIn(DB, "recover_password", last.userId) : c.count = 1

(* ---------------------------- mails and their requests -------------- *)
\* C38: every verification mail handed to the mail service by the call that
\* has just ended carries the token of a request that is in the request
\* table, not soft-deleted.
C38_MailHasCommittedRequest ==
  \A m \in mails :
    m.kind = "account_verification"
      => \E r \in requests["account_verification"] :
           r.jti = m.token.jti /\ r.securityToken = m.token /\ r.deletedAt = Null

(* ---------------------------- what signOut deletes ------------------ *)
\* C39: a signOut call that returns leaves the refresh-token table without
\* the records of the presented token's jti and otherwise as it was, a
\* signOut call that throws leaves it as it was, and neither changes a user
\* or an identity or hands over a mail, also when the jti has no record.
C39_SignOutDeletesOnlyItsRecord ==
  [][(now' = now /\ last'.op = "signOut")
       => /\ refreshTokens' = IF last'.err = "none"
                                THEN {r \in refreshTokens : r.jti # last'.jti}
                                ELSE refreshTokens
          /\ identity' = identity
          /\ users' = users
          /\ mails' = {}]_vars

\* a sign-out has returned while the user, in strict mode, holds another
\* record and is not locked
C39_Witness ==
  /\ last.op = "signOut"
  /\ last.err = "none"
  /\ last.userId \in users
  /\ identity[last.userId].strictMode
  /\ ~identity[last.userId].isLocked
  /\ \E r \in refreshTokens : r.userId = last.userId /\ r.jti # last.jti

(* ---------------------------- the record of an unknown platform ----- *)
\* C40: a sign-up for a new email, and a sign-in of a valid user with the
\* right password, from a platform that is neither web nor mobile returns
\* the failure payload without throwing; the call has put one refresh-token
\* record of the user into the table, and no token is in the response.
C40_UnknownPlatformCommits ==
  [][(/\ last'.op \in {"signUp", "signIn"}
      /\ last'.platform \notin {"web", "mobile"}
      /\ IF last'.op = "signUp"
           THEN last'.fault = "none" /\ last'.userId \notin users
           ELSE /\ last'.userId \in users
                /\ validateUser(DB, last'.userId, TRUE, FALSE) = "none"
                /\ compare(last'.password, identity[last'.userId].password))
       => /\ last'.err = "none"
          /\ last'.resp.kind = "failure"
          /\ last'.resp.cookie = Absent
          /\ last'.resp.body = Absent
          /\ last'.token = Absent
          /\ issued' = issued
          /\ Cardinality(refreshTokens' \ refreshTokens) = 1
          /\ \A r \in refreshTokens' \ refreshTokens : r.userId = last'.userId]_vars

\* a sign-in from an unknown platform has returned and left its record
C40_Witness ==
  /\ last.op = "signIn"
  /\ last.platform = "other"
  /\ last.err = "none"
  /\ last.resp.kind = "failure"
  /\ last.created # {}
  /\ last.created \subseteq refreshTokens
  /\ \A w \in issued : \A r \in last.created : getRefreshTokenPayload(w).jti # r.jti

====
